---- MODULE Spec2Model ----
(***************************************************************************)
(* A model of the Pixoo Commander core: the PixooClient device link        *)
(* (endpoint negotiation, command transport with retry and backoff) and    *)
(* the SceneManager / Scene render loop.                                   *)
(*                                                                         *)
(* JavaScript runs every callback to completion: a step of the model is    *)
(* one resumption of an async function, from the point it was suspended    *)
(* at (a fetch in flight, a timer) to its next suspension or its return.   *)
(* An await of a value that is already settled does not let another        *)
(* callback in, so it is not a step boundary.                              *)
(***************************************************************************)
EXTENDS Integers, Sequences, FiniteSets, TLC

(***************************************************************************)
(* The calls that can be in progress at once.  connect() and sendCommand() *)
(* keep no per-call state on the client, so a call is told from another    *)
(* only by its name here.                                                  *)
(***************************************************************************)
\* connect() calls
ConnProcs == {"connect"}
\* sendCommand() calls
SendProcs == {"send1", "send2"}
\* the sendCommand() call that runs beside connect() in SpecLink
LinkSendProcs == {"send1"}
\* Scene.render() calls (setInterval does not wait for the one before)
RenderProcs == {"tick1", "tick2"}
\* the Scene.render() call of SpecRender
OneRender == {"tick1"}
\* every caller of sendCommand: a render() call pushes under its own name
Senders == SendProcs \cup RenderProcs

(***************************************************************************)
(* Bounds of the model.                                                    *)
(***************************************************************************)
\* scenes ever created (the cap on sceneCounter)
MaxScenes == 4
\* widgets of the scene that renders
MaxWidgets == 2
\* the widgets removed from a scene that the history keeps
MaxRemoved == 3
\* the calls of render() on a widget taken on its own
MaxCalls == 3
\* the milliseconds the clock advances while such a widget is observed
MaxElapsed == 4
\* the ticks of the timer that a widget is followed through
MaxTicks == 32

SceneIds == 1..MaxScenes

Min(a, b) == IF a <= b THEN a ELSE b

(***************************************************************************)
(* PixooClient: values.                                                    *)
(***************************************************************************)
\* connectionState.port = null
NoPort == 0
\* connectionState.path = null
NoPath == ""
\* ipAddress = null
NoIp == ""
DeviceIp == "192.168.1.50"

\* this.endpoints, in list order
Endpoints ==
    << [port |-> 80,   path |-> "/post"],
       [port |-> 64,   path |-> "/post"],
       [port |-> 80,   path |-> "/api/post"],
       [port |-> 8080, path |-> "/post"],
       [port |-> 443,  path |-> "/post"] >>

NoEndpoint == [port |-> NoPort, path |-> NoPath]

\* JavaScript truthiness of `port && path`
HasEndpoint(cs) == cs.port # NoPort /\ cs.path # NoPath

\* the default of sendCommand's retryCount parameter
retryCount == 3

(***************************************************************************)
(* Errors a fetch can reject with, and the errors the client throws        *)
(* itself.  An error is a (name, message) pair.                            *)
(***************************************************************************)
NoError == [name |-> "", message |-> ""]
\* a network-level failure (unreachable host, refused connection)
FetchFailed == [name |-> "TypeError", message |-> "Failed to fetch"]
\* controller.abort() fired by the per-attempt timeout
Aborted == [name |-> "AbortError", message |-> "The operation was aborted."]
\* an error of the fetch call that is not a loss of the connection
Unexpected == [name |-> "Error", message |-> "Unexpected error"]
NotConnected == [name |-> "Error", message |-> "Not connected to Pixoo device"]
NoValidEndpoint == [name |-> "Error", message |-> "No valid endpoint available"]
IpNotSet == [name |-> "Error", message |-> "IP address not set"]

\* what _testEndpoint's fetch can reject with
ProbeErrors == {FetchFailed, Aborted}
\* what sendCommand's fetch can reject with
SendErrors == {FetchFailed, Aborted, Unexpected}

\* String.prototype.includes, for the messages above and the tokens
\* _isConnectionError looks for: only "Failed to fetch" holds one of them
Includes(message, token) ==
    message = "Failed to fetch" /\ token = "Failed to fetch"

NoAbort_isConnectionError(error) ==
    \/ Includes(error.message, "Failed to fetch")
    \/ Includes(error.message, "NetworkError")
    \/ Includes(error.message, "TypeError")
    \/ Includes(error.message, "signal timed out")
    \/ error.name = "TimeoutError"

_isConnectionError(error) ==
    \/ Includes(error.message, "Failed to fetch")
    \/ Includes(error.message, "NetworkError")
    \/ Includes(error.message, "TypeError")
    \/ Includes(error.message, "signal timed out")
    \/ error.name = "TimeoutError"
    \/ error.name = "AbortError"

\* the delay of the setTimeout that follows failed attempt `attempt`
OffByOne_Backoff(attempt) == 1000 * 2^attempt

Backoff(attempt) == Min(1000 * 2^(attempt - 1), 3000)

(***************************************************************************)
(* State.                                                                  *)
(***************************************************************************)
VARIABLES
    ipAddress,        \* PixooClient.ipAddress
    connected,        \* PixooClient.connected
    connectionState,  \* PixooClient.connectionState: port, path, lastConnected
    conns,            \* the connect() calls in progress
    sends,            \* the sendCommand() calls in progress
    lastGood,         \* history: the endpoint of the last successful connect()
    sceneCounter,     \* SceneManager.sceneCounter
    scenes,           \* SceneManager.scenes: the ids, in insertion order
    activeScene,      \* SceneManager.activeScene: the Scene object, by id
    activeSceneId,    \* SceneManager.activeSceneId
    sceneObj,         \* the Scene objects, in the map or not
    task,             \* the callback that is running, between two of its steps
    renders,          \* the Scene.render() calls in progress
    buffer,           \* the widgets drawn into PixooClient.buffer since it was cleared
    removed,          \* history: the widgets that removeWidget took out of a scene
    now,              \* Date.now()
    widget,           \* a widget taken on its own: its fields and its history
    cfgWidget,        \* a Widget with its config, its geometry and its hooks
    client,           \* a PixooClient taken for its buffer: size and cells
    pluginManager,    \* PluginManager: plugins and widgetTypes
    deviceScanner     \* DeviceScanner: isScanning, discoveredDevices, the calls

linkVars == << ipAddress, connected, connectionState, conns, sends, lastGood >>

sceneVars == << sceneCounter, scenes, activeScene, activeSceneId, sceneObj, task,
                renders, buffer >>

unitVars == << cfgWidget, client, pluginManager, deviceScanner >>

widgetVars == << removed, now, widget, cfgWidget, client, pluginManager,
                 deviceScanner >>

vars == << ipAddress, connected, connectionState, conns, sends, lastGood,
           sceneCounter, scenes, activeScene, activeSceneId, sceneObj, task,
           renders, buffer, removed, now, widget, cfgWidget, client,
           pluginManager, deviceScanner >>

\* a connect() call that has not started
IdleConn ==
    [ pc        |-> "idle",      \* idle, pref, list, ok, failed
      idx       |-> 0,           \* the index in Endpoints of the probe in flight
      target    |-> NoEndpoint,  \* the endpoint of the probe in flight
      lastError |-> NoError,     \* the local lastError
      thrown    |-> NoError,     \* the error connect() threw (its "Last error")
      probes    |-> << >>,       \* history: the probes made, in order
      lastProbeError |-> NoError \* history: the error of the last failed probe
    ]

\* a sendCommand() call that has not started
IdleSend ==
    [ pc      |-> "idle",      \* idle, inflight, backoff, ok, failed
      attempt |-> 0,           \* the loop variable
      port    |-> NoPort,      \* the local port
      path    |-> NoPath,      \* the local path
      error   |-> NoError,     \* the error thrown to the caller
      tx      |-> 0,           \* history: fetch calls made
      txTo    |-> NoEndpoint,  \* history: the endpoint of the last fetch call
      txWhileDisconnected |-> FALSE, \* history: the fetch in flight was made
                                     \* while connected = false
      waits   |-> << >>        \* history: the backoff delays waited, in order
    ]

LinkInit ==
    /\ ipAddress = NoIp
    /\ connected = FALSE
    /\ connectionState = [port |-> NoPort, path |-> NoPath, lastConnected |-> FALSE]
    /\ conns = [c \in ConnProcs |-> IdleConn]
    /\ sends = [p \in Senders |-> IdleSend]
    /\ lastGood = NoEndpoint

(***************************************************************************)
(* PixooClient.connect and _testEndpoint.                                  *)
(* connectionState.connectionAttempts is only ever incremented and never   *)
(* read; it is left out.                                                   *)
(***************************************************************************)
\* a probe of the log: the index in Endpoints (0: the preferred endpoint)
Probe(i) == [idx |-> i, res |-> "pending"]

\* the last probe of the log completed with `res`
Settle(probes, res) == [probes EXCEPT ![Len(probes)].res = res]

\* ui-manager's handleConnect stores the address the user entered
SetIpAddress ==
    /\ ipAddress = NoIp
    /\ ipAddress' = DeviceIp
    /\ UNCHANGED << connected, connectionState, conns, sends, lastGood >>

\* connect() up to its first await: the preferred endpoint when port and
\* path are both set, else the first entry of the list
NoPreferred_ConnectStart(c) ==
    /\ conns[c].pc = "idle"
    /\ IF ipAddress = NoIp
       THEN conns' = [conns EXCEPT ![c].pc = "failed", ![c].thrown = IpNotSet]
       ELSE conns' = [conns EXCEPT
                        ![c].pc = "list",
                        ![c].idx = 1,
                        ![c].target = Endpoints[1],
                        ![c].probes = << Probe(1) >>]
    /\ UNCHANGED << ipAddress, connected, connectionState, sends, lastGood >>

ConnectStart(c) ==
    /\ conns[c].pc = "idle"
    /\ IF ipAddress = NoIp
       THEN conns' = [conns EXCEPT ![c].pc = "failed", ![c].thrown = IpNotSet]
       ELSE LET pair == [port |-> connectionState.port, path |-> connectionState.path]
            IN IF HasEndpoint(connectionState)
               THEN conns' = [conns EXCEPT
                                ![c].pc = "pref",
                                ![c].idx = 0,
                                ![c].target = pair,
                                ![c].probes = << Probe(0) >>]
               ELSE conns' = [conns EXCEPT
                                ![c].pc = "list",
                                ![c].idx = 1,
                                ![c].target = Endpoints[1],
                                ![c].probes = << Probe(1) >>]
    /\ UNCHANGED << ipAddress, connected, connectionState, sends, lastGood >>

\* the probe of the preferred endpoint completed: connected, and return
PreferredOk(c) ==
    /\ conns[c].pc = "pref"
    /\ connected' = TRUE
    /\ connectionState' = [connectionState EXCEPT !.lastConnected = TRUE]
    /\ conns' = [conns EXCEPT ![c].pc = "ok",
                              ![c].probes = Settle(conns[c].probes, "ok")]
    /\ lastGood' = conns[c].target
    /\ UNCHANGED << ipAddress, sends >>

\* the probe of the preferred endpoint failed: on to the list (the error is
\* logged, not kept in lastError)
PreferredErr(c, e) ==
    /\ conns[c].pc = "pref"
    /\ conns' = [conns EXCEPT
                   ![c].pc = "list",
                   ![c].idx = 1,
                   ![c].target = Endpoints[1],
                   ![c].lastProbeError = e,
                   ![c].probes = Append(Settle(conns[c].probes, "err"),
                                        Probe(1))]
    /\ UNCHANGED << ipAddress, connected, connectionState, sends, lastGood >>

\* the probe of a list entry completed: store it, connected, and return
PortOnly_EndpointOk(c) ==
    /\ conns[c].pc = "list"
    /\ connectionState' = [connectionState EXCEPT
                             !.port = conns[c].target.port,
                             !.path = Endpoints[1].path,
                             !.lastConnected = TRUE]
    /\ connected' = TRUE
    /\ conns' = [conns EXCEPT ![c].pc = "ok",
                              ![c].probes = Settle(conns[c].probes, "ok")]
    /\ lastGood' = conns[c].target
    /\ UNCHANGED << ipAddress, sends >>

EndpointOk(c) ==
    /\ conns[c].pc = "list"
    /\ connectionState' = [connectionState EXCEPT
                             !.port = conns[c].target.port,
                             !.path = conns[c].target.path,
                             !.lastConnected = TRUE]
    /\ connected' = TRUE
    /\ conns' = [conns EXCEPT ![c].pc = "ok",
                              ![c].probes = Settle(conns[c].probes, "ok")]
    /\ lastGood' = conns[c].target
    /\ UNCHANGED << ipAddress, sends >>

\* the probe of a list entry failed: the next entry, or, after the last one,
\* disconnected with a cleared endpoint and the error thrown
FirstError_EndpointErr(c, e) ==
    /\ conns[c].pc = "list"
    /\ LET first == IF conns[c].lastError = NoError THEN e ELSE conns[c].lastError
       IN IF conns[c].idx < Len(Endpoints)
          THEN /\ conns' = [conns EXCEPT
                              ![c].lastError = first,
                              ![c].lastProbeError = e,
                              ![c].idx = conns[c].idx + 1,
                              ![c].target = Endpoints[conns[c].idx + 1],
                              ![c].probes = Append(Settle(conns[c].probes, "err"),
                                                   Probe(conns[c].idx + 1))]
               /\ UNCHANGED << connected, connectionState >>
          ELSE /\ connected' = FALSE
               /\ connectionState' = [connectionState EXCEPT
                                        !.port = NoPort, !.path = NoPath]
               /\ conns' = [conns EXCEPT
                              ![c].pc = "failed",
                              ![c].lastError = first,
                              ![c].lastProbeError = e,
                              ![c].thrown = first,
                              ![c].probes = Settle(conns[c].probes, "err")]
    /\ UNCHANGED << ipAddress, sends, lastGood >>

EndpointErr(c, e) ==
    /\ conns[c].pc = "list"
    /\ IF conns[c].idx < Len(Endpoints)
       THEN /\ conns' = [conns EXCEPT
                           ![c].lastError = e,
                           ![c].lastProbeError = e,
                           ![c].idx = conns[c].idx + 1,
                           ![c].target = Endpoints[conns[c].idx + 1],
                           ![c].probes = Append(Settle(conns[c].probes, "err"),
                                                Probe(conns[c].idx + 1))]
            /\ UNCHANGED << connected, connectionState >>
       ELSE /\ connected' = FALSE
            /\ connectionState' = [connectionState EXCEPT
                                     !.port = NoPort, !.path = NoPath]
            /\ conns' = [conns EXCEPT
                           ![c].pc = "failed",
                           ![c].lastError = e,
                           ![c].lastProbeError = e,
                           ![c].thrown = e,
                           ![c].probes = Settle(conns[c].probes, "err")]
    /\ UNCHANGED << ipAddress, sends, lastGood >>

\* the caller of connect() has taken its result
ConnectReturn(c) ==
    /\ conns[c].pc \in {"ok", "failed"}
    /\ conns' = [conns EXCEPT ![c] = IdleConn]
    /\ UNCHANGED << ipAddress, connected, connectionState, sends, lastGood >>

(***************************************************************************)
(* PixooClient.sendCommand (push, setBrightness, setChannel, drawText and  *)
(* drawImage all end in it) and _handleDisconnection.                      *)
(***************************************************************************)
\* the fetch call of an attempt, to the endpoint read when the call began
Transmit(s, attempt) ==
    [s EXCEPT !.pc = "inflight",
              !.attempt = attempt,
              !.tx = s.tx + 1,
              !.txTo = [port |-> s.port, path |-> s.path],
              !.txWhileDisconnected = s.txWhileDisconnected \/ ~connected]

\* sendCommand up to its first await: the two guards, then attempt 1
SendStart(p) ==
    /\ sends[p].pc = "idle"
    /\ IF ~connected
       THEN sends' = [sends EXCEPT ![p].pc = "failed", ![p].error = NotConnected]
       ELSE IF ~HasEndpoint(connectionState)
       THEN sends' = [sends EXCEPT ![p].pc = "failed", ![p].error = NoValidEndpoint]
       ELSE sends' = [sends EXCEPT
                        ![p] = Transmit([sends[p] EXCEPT
                                           !.port = connectionState.port,
                                           !.path = connectionState.path], 1)]
    /\ UNCHANGED << ipAddress, connected, connectionState, conns, lastGood >>

\* the fetch of an attempt is over; at the return the locals are gone
Landed(s, pc) ==
    [s EXCEPT !.pc = pc,
              !.txTo = IF pc = "backoff" THEN s.txTo ELSE NoEndpoint,
              !.txWhileDisconnected = FALSE,
              !.port = IF pc = "backoff" THEN s.port ELSE NoPort,
              !.path = IF pc = "backoff" THEN s.path ELSE NoPath]

\* the fetch completed without throwing: { success: true }
FetchOk(p) ==
    /\ sends[p].pc = "inflight"
    /\ sends' = [sends EXCEPT ![p] = Landed(sends[p], "ok")]
    /\ UNCHANGED << ipAddress, connected, connectionState, conns, lastGood >>

_handleDisconnection ==
    /\ connected' = FALSE
    /\ connectionState' = [port |-> NoPort, path |-> NoPath, lastConnected |-> FALSE]

\* the fetch threw: on the last attempt the error goes to the caller, after
\* _handleDisconnection when it is a connection error; else the backoff
FetchErr(p, e) ==
    /\ sends[p].pc = "inflight"
    /\ IF sends[p].attempt = retryCount
       THEN /\ IF _isConnectionError(e)
               THEN _handleDisconnection
               ELSE UNCHANGED << connected, connectionState >>
            /\ sends' = [sends EXCEPT
                           ![p] = [Landed(sends[p], "failed") EXCEPT !.error = e]]
       ELSE /\ sends' = [sends EXCEPT
                           ![p] = [Landed(sends[p], "backoff") EXCEPT
                                     !.waits = Append(sends[p].waits,
                                                      Backoff(sends[p].attempt))]]
            /\ UNCHANGED << connected, connectionState >>
    /\ UNCHANGED << ipAddress, conns, lastGood >>

\* the backoff timer fired: the next attempt
BackoffDone(p) ==
    /\ sends[p].pc = "backoff"
    /\ sends' = [sends EXCEPT ![p] = Transmit(sends[p], sends[p].attempt + 1)]
    /\ UNCHANGED << ipAddress, connected, connectionState, conns, lastGood >>

\* the caller of sendCommand has taken its result
SendReturn(p) ==
    /\ sends[p].pc \in {"ok", "failed"}
    /\ sends' = [sends EXCEPT ![p] = IdleSend]
    /\ UNCHANGED << ipAddress, connected, connectionState, conns, lastGood >>

(***************************************************************************)
(* SceneManager and Scene.                                                 *)
(***************************************************************************)
\* activeScene = null, activeSceneId = null
NoScene == 0

\* a Widget after its constructor: Widget.initialized, Widget.enabled
NewWidget == [initialized |-> FALSE, enabled |-> TRUE]

DefaultRefreshRate == 1000

MinRefreshRate == 100

NoTimer == 0

\* a Scene after its constructor.  updateInterval: the scene holds the handle
\* of an interval timer; liveTimers: the interval timers of the scene that
\* are set and not cleared; period: the period of the timer whose handle
\* the scene holds.
NewScene ==
    [ isActive       |-> FALSE,
      updateInterval |-> FALSE,
      liveTimers     |-> 0,
      widgets        |-> << >>,
      refreshRate    |-> DefaultRefreshRate,
      period         |-> NoTimer ]

\* no callback is between two of its steps
NoTask == [op |-> "none", sceneId |-> NoScene, proc |-> ""]

\* a Scene.render() call that has not started
IdleRender ==
    [ pc      |-> "idle",   \* idle, widgets, push, done
      scene   |-> NoScene,  \* the scene whose timer made the call
      cur     |-> 0,        \* the widget the loop is at
      visited |-> {},       \* history: the widgets whose render() was called
      threw   |-> 0,        \* history: the widget whose render() threw
      pushed  |-> FALSE,    \* history: push() was called
      pushFailed |-> FALSE, \* history: push() threw in a tick of this timer
      late    |-> FALSE     \* history: a clear, a draw or a fetch call of this
                            \* render() was made while its scene was not active
    ]

SceneInit ==
    /\ sceneCounter = 0
    /\ scenes = << >>
    /\ activeScene = NoScene
    /\ activeSceneId = NoScene
    /\ sceneObj = [s \in SceneIds |-> NewScene]
    /\ task = NoTask
    /\ renders = [r \in RenderProcs |-> IdleRender]
    /\ buffer = {}

\* Map.has
Has(seq, x) == \E i \in 1..Len(seq) : seq[i] = x

\* Widget.init: initialized is set before the onInit hook runs
Widget_init(w) == [w EXCEPT !.initialized = TRUE]

\* Widget.destroy: initialized is reset after the onDestroy hook, so not at
\* all when the hook throws
Widget_destroy(w, throws) ==
    IF ~w.initialized \/ throws THEN w ELSE [w EXCEPT !.initialized = FALSE]

\* Scene.start; an onInit hook that throws is caught per widget
Scene_start(obj) ==
    IF obj.isActive
    THEN obj
    ELSE [ isActive       |-> TRUE,
           updateInterval |-> TRUE,
           liveTimers     |-> obj.liveTimers + 1,
           widgets        |-> [i \in DOMAIN obj.widgets |-> Widget_init(obj.widgets[i])],
           refreshRate    |-> obj.refreshRate,
           period         |-> obj.refreshRate ]

\* Scene.stop; T: the widgets whose onDestroy hook throws (caught per widget)
Scene_stop(obj, T) ==
    IF ~obj.isActive
    THEN obj
    ELSE [ isActive       |-> FALSE,
           updateInterval |-> FALSE,
           liveTimers     |-> IF obj.updateInterval
                              THEN obj.liveTimers - 1
                              ELSE obj.liveTimers,
           widgets        |-> [i \in DOMAIN obj.widgets |->
                                  Widget_destroy(obj.widgets[i], i \in T)],
           refreshRate    |-> obj.refreshRate,
           period         |-> IF obj.updateInterval THEN NoTimer ELSE obj.period ]

\* SceneManager.setActiveScene from its guard to the stop of the active
\* scene, on the Scene objects `objs`
KeepRunning_setActiveScene_stop(sceneId, objs, T) ==
    /\ sceneObj' = objs
    /\ task' = [op |-> "setActiveScene", sceneId |-> sceneId, proc |-> ""]

setActiveScene_stop(sceneId, objs, T) ==
    /\ sceneObj' = IF activeScene # NoScene
                   THEN [objs EXCEPT ![activeScene] = Scene_stop(@, T)]
                   ELSE objs
    /\ task' = [op |-> "setActiveScene", sceneId |-> sceneId, proc |-> ""]

\* SceneManager.setActiveScene: a scene that is not in the map throws
setActiveScene(sceneId) ==
    /\ task = NoTask
    /\ IF ~Has(scenes, sceneId)
       THEN UNCHANGED << sceneObj, task >>
       ELSE \E T \in SUBSET (1..MaxWidgets) :
               setActiveScene_stop(sceneId, sceneObj, T)
    /\ UNCHANGED << sceneCounter, scenes, activeScene, activeSceneId, renders, buffer >>

\* SceneManager.setActiveScene from the stop on: the new active scene is set
\* and started
setActiveScene_start ==
    /\ task.op = "setActiveScene"
    /\ activeScene' = task.sceneId
    /\ activeSceneId' = task.sceneId
    /\ sceneObj' = [sceneObj EXCEPT ![task.sceneId] = Scene_start(@)]
    /\ task' = NoTask
    /\ UNCHANGED << sceneCounter, scenes, renders, buffer >>

\* SceneManager.createScene: the first scene is made the active one
createScene ==
    /\ task = NoTask
    /\ sceneCounter < MaxScenes
    /\ LET sceneId == sceneCounter + 1
           objs == [sceneObj EXCEPT ![sceneId] = NewScene]
       IN /\ sceneCounter' = sceneId
          /\ scenes' = Append(scenes, sceneId)
          /\ IF Len(scenes) + 1 = 1
             THEN \E T \in SUBSET (1..MaxWidgets) :
                     setActiveScene_stop(sceneId, objs, T)
             ELSE sceneObj' = objs /\ task' = NoTask
    /\ UNCHANGED << activeScene, activeSceneId, renders, buffer >>

\* SceneManager.deleteScene: the scene is stopped and removed; when it was
\* the active one the first remaining scene is made active
LastRemaining_deleteScene(sceneId) ==
    /\ task = NoTask
    /\ IF ~Has(scenes, sceneId)
       THEN UNCHANGED << scenes, activeScene, activeSceneId, sceneObj, task >>
       ELSE \E T \in SUBSET (1..MaxWidgets) :
              LET stopped == [sceneObj EXCEPT ![sceneId] = Scene_stop(@, T)]
                  remainingScenes == SelectSeq(scenes, LAMBDA x : x # sceneId)
              IN /\ scenes' = remainingScenes
                 /\ IF activeSceneId = sceneId
                    THEN IF Len(remainingScenes) > 0
                         THEN /\ setActiveScene_stop(remainingScenes[Len(remainingScenes)],
                                                  stopped, T)
                              /\ UNCHANGED << activeScene, activeSceneId >>
                         ELSE /\ activeScene' = NoScene
                              /\ activeSceneId' = NoScene
                              /\ sceneObj' = stopped
                              /\ task' = NoTask
                    ELSE /\ sceneObj' = stopped
                         /\ task' = NoTask
                         /\ UNCHANGED << activeScene, activeSceneId >>
    /\ UNCHANGED << sceneCounter, renders, buffer >>

deleteScene(sceneId) ==
    /\ task = NoTask
    /\ IF ~Has(scenes, sceneId)
       THEN UNCHANGED << scenes, activeScene, activeSceneId, sceneObj, task >>
       ELSE \E T \in SUBSET (1..MaxWidgets) :
              LET stopped == [sceneObj EXCEPT ![sceneId] = Scene_stop(@, T)]
                  remainingScenes == SelectSeq(scenes, LAMBDA x : x # sceneId)
              IN /\ scenes' = remainingScenes
                 /\ IF activeSceneId = sceneId
                    THEN IF Len(remainingScenes) > 0
                         THEN /\ setActiveScene_stop(remainingScenes[1], stopped, T)
                              /\ UNCHANGED << activeScene, activeSceneId >>
                         ELSE /\ activeScene' = NoScene
                              /\ activeSceneId' = NoScene
                              /\ sceneObj' = stopped
                              /\ task' = NoTask
                    ELSE /\ sceneObj' = stopped
                         /\ task' = NoTask
                         /\ UNCHANGED << activeScene, activeSceneId >>
    /\ UNCHANGED << sceneCounter, renders, buffer >>

(***************************************************************************)
(* A widget taken on its own: the fields of Widget, AnimatedWidget and     *)
(* DataWidget and what their render() does at a time of the clock.  A      *)
(* number of the config that is missing or 0 gets the default of the       *)
(* constructor (config.x || default).                                      *)
(***************************************************************************)
Kinds == {"base", "animated", "data"}

\* data = null
NoData == 0

DefaultUpdateInterval == 1000
DefaultAnimationSpeed == 100
DefaultDataFetchInterval == 30000

Or(a, b) == IF a # 0 THEN a ELSE b

\* new Widget / AnimatedWidget / DataWidget (id, config, pixooClient)
Constructed(kind, config) ==
    [ kind              |-> kind,
      initialized       |-> FALSE,
      enabled           |-> TRUE,
      lastUpdate        |-> 0,
      updateInterval    |-> Or(config.updateInterval, DefaultUpdateInterval),
      animationFrame    |-> 0,
      animationSpeed    |-> Or(config.animationSpeed, DefaultAnimationSpeed),
      data              |-> NoData,
      lastDataFetch     |-> 0,
      dataFetchInterval |-> Or(config.dataFetchInterval, DefaultDataFetchInterval),
      configEnabled     |-> TRUE,    \* config.enabled, from getDefaultConfig
      calls             |-> 0,       \* history: the calls of render()
      draws             |-> 0,       \* history: the calls of the draw hook
      fetches           |-> 0,       \* history: the calls of fetchData
      hookArg           |-> 0,       \* history: the argument of the last draw hook
      prevUpdate        |-> 0,       \* history: lastUpdate before the last redraw
      fetchFailed       |-> FALSE,   \* history: fetchData threw in the last render()
      thrown            |-> FALSE ]  \* history: the last render() threw to its caller

NoConfig == [updateInterval |-> 0, animationSpeed |-> 0, dataFetchInterval |-> 0]

(***************************************************************************)
(* A Widget with its config.  The config is a mapping from option names to *)
(* values; the options of getDefaultConfig are always in it, a subtype may *)
(* add its own (color stands for them).  x, y, width, height,              *)
(* updateInterval and enabled are also fields of the widget.               *)
(***************************************************************************)
getDefaultConfig ==
    [x |-> 0, y |-> 0, width |-> 64, height |-> 64, updateInterval |-> 1000,
     enabled |-> TRUE]

\* { ...a, ...b }
Spread(a, b) ==
    [f \in DOMAIN a \cup DOMAIN b |-> IF f \in DOMAIN b THEN b[f] ELSE a[f]]

\* new Widget(id, config, pixooClient)
Widget_new(config) ==
    LET c == Spread(getDefaultConfig, config)
    IN  [ config         |-> c,
          initialized    |-> FALSE,
          enabled        |-> TRUE,
          x              |-> Or(c.x, 0),
          y              |-> Or(c.y, 0),
          width          |-> Or(c.width, 64),
          height         |-> Or(c.height, 64),
          updateInterval |-> Or(c.updateInterval, 1000),
          overrides      |-> config,  \* history: the last config merged in
          updated        |-> FALSE,   \* history: updateConfig was called
          onInits        |-> 0,       \* history: the calls of onInit so far
          destroys       |-> 0,       \* history: destroy() since the last onInit
          onDestroys     |-> 0 ]      \* history: onDestroy since the last onInit

\* Widget.updateConfig(newConfig)
Replace_updateConfig(w, newConfig) ==
    LET c == Spread(getDefaultConfig, newConfig)
    IN  [w EXCEPT !.config         = c,
                  !.x              = Or(c.x, w.x),
                  !.y              = Or(c.y, w.y),
                  !.width          = Or(c.width, w.width),
                  !.height         = Or(c.height, w.height),
                  !.updateInterval = Or(c.updateInterval, w.updateInterval),
                  !.enabled        = c.enabled]

updateConfig(w, newConfig) ==
    LET c == Spread(w.config, newConfig)
    IN  [w EXCEPT !.config         = c,
                  !.x              = Or(c.x, w.x),
                  !.y              = Or(c.y, w.y),
                  !.width          = Or(c.width, w.width),
                  !.height         = Or(c.height, w.height),
                  !.updateInterval = Or(c.updateInterval, w.updateInterval),
                  !.enabled        = c.enabled]

\* the frame of a step on one of the units below
Apart ==
    UNCHANGED linkVars /\ UNCHANGED sceneVars /\ UNCHANGED << removed, now, widget >>

\* widget.updateConfig(newConfig), from any caller
applyConfig(newConfig) ==
    /\ cfgWidget' = [updateConfig(cfgWidget, newConfig)
                        EXCEPT !.overrides = newConfig, !.updated = TRUE]
    /\ UNCHANGED << client, pluginManager, deviceScanner >> /\ Apart

\* UIManager.toggleWidget: widget.setEnabled(!widget.isEnabled())
toggleWidget ==
    /\ cfgWidget' = [cfgWidget EXCEPT !.enabled = ~@]
    /\ UNCHANGED << client, pluginManager, deviceScanner >> /\ Apart

\* widget.init() and widget.destroy(), the hooks counted
MaxHooks == 3

hookedInit ==
    /\ cfgWidget.onInits < MaxHooks
    /\ cfgWidget' =
          IF cfgWidget.initialized
          THEN cfgWidget
          ELSE [Widget_init(cfgWidget) EXCEPT !.onInits = @ + 1,
                                              !.destroys = 0,
                                              !.onDestroys = 0]
    /\ UNCHANGED << client, pluginManager, deviceScanner >> /\ Apart

hookedDestroy(throws) ==
    /\ cfgWidget.destroys < MaxHooks
    /\ cfgWidget' =
          [Widget_destroy(cfgWidget, throws)
              EXCEPT !.destroys = @ + 1,
                     !.onDestroys = IF cfgWidget.initialized THEN @ + 1 ELSE @]
    /\ UNCHANGED << client, pluginManager, deviceScanner >> /\ Apart

(***************************************************************************)
(* PixooClient taken for its pixel buffer.  buffer[y][x] is a color, an    *)
(* array of three numbers that no write validates.  The model holds the    *)
(* cells that are not [0, 0, 0], by their position << x, y >>; createBuffer *)
(* makes every cell [0, 0, 0].                                             *)
(***************************************************************************)
Black == << 0, 0, 0 >>

Cells(size) == (0 .. size - 1) \X (0 .. size - 1)

NoCall == [op |-> "new", x |-> 0, y |-> 0, color |-> Black]

\* new PixooClient(ipAddress, size), createBuffer()
PixooClient_new(size) ==
    [ size   |-> size,
      buffer |-> [cell \in {} |-> Black],
      last   |-> NoCall,     \* history: the last call on the buffer
      draws  |-> 0 ]         \* history: the calls of a widget's primitives

CellAt(c, cell) == IF cell \in DOMAIN c.buffer THEN c.buffer[cell] ELSE Black

\* this.buffer[y][x] = color, for every << x, y >> of a set of cells
Store(cellMap, cells, color) ==
    IF color = Black
    THEN [cell \in DOMAIN cellMap \ cells |-> cellMap[cell]]
    ELSE [cell \in DOMAIN cellMap \cup cells |->
             IF cell \in cells THEN color ELSE cellMap[cell]]

\* PixooClient.setPixel(x, y, color)
Inclusive_PixooClient_setPixel(c, x, y, color) ==
    IF x >= 0 /\ x <= c.size /\ y >= 0 /\ y <= c.size
    THEN [c EXCEPT !.buffer = Store(@, {<< x, y >>}, color)]
    ELSE c

PixooClient_setPixel(c, x, y, color) ==
    IF x >= 0 /\ x < c.size /\ y >= 0 /\ y < c.size
    THEN [c EXCEPT !.buffer = Store(@, {<< x, y >>}, color)]
    ELSE c

\* PixooClient.fillScreen(color); clear() is fillScreen([0, 0, 0])
PixooClient_fillScreen(c, color) ==
    [c EXCEPT !.buffer = Store(@, Cells(c.size), color)]

\* a | b on numbers that are not negative
RECURSIVE BitOr(_, _)
BitOr(a, b) ==
    IF a = 0 THEN b
    ELSE IF b = 0 THEN a
    ELSE (IF a % 2 = 1 \/ b % 2 = 1 THEN 1 ELSE 0) + 2 * BitOr(a \div 2, b \div 2)

\* n.toString(16), as the sequence of its digits 0 .. 15
RECURSIVE ToHex(_)
ToHex(n) == IF n < 16 THEN << n >> ELSE Append(ToHex(n \div 16), n % 16)

\* s.padStart(6, '0')
PadStart6(s) ==
    IF Len(s) >= 6 THEN s
    ELSE [i \in 1 .. 6 |-> IF i <= 6 - Len(s) THEN 0 ELSE s[i - (6 - Len(s))]]

\* ((r << 16) | (g << 8) | b).toString(16).padStart(6, '0'); the channels
\* of the model are in 0 .. 256, where << does not wrap
PixelHex(color) ==
    PadStart6(ToHex(BitOr(BitOr(color[1] * 65536, color[2] * 256), color[3])))

\* PixooClient.bufferToPicData(): the first k cells, y outside and x inside
RECURSIVE PicData(_, _)
PicData(c, k) ==
    IF k = 0 THEN << >>
    ELSE PicData(c, k - 1) \o PixelHex(CellAt(c, << (k - 1) % c.size, (k - 1) \div c.size >>))

bufferToPicData(c) == PicData(c, c.size * c.size)

\* the calls on the buffer, from any caller
clientSetPixel(x, y, color) ==
    /\ client' = [PixooClient_setPixel(client, x, y, color)
                     EXCEPT !.last = [op |-> "setPixel", x |-> x, y |-> y,
                                      color |-> color]]
    /\ UNCHANGED << cfgWidget, pluginManager, deviceScanner >> /\ Apart

clientFillScreen(color) ==
    /\ client' = [PixooClient_fillScreen(client, color)
                     EXCEPT !.last = [op |-> "fillScreen", x |-> 0, y |-> 0,
                                      color |-> color]]
    /\ UNCHANGED << cfgWidget, pluginManager, deviceScanner >> /\ Apart

clientClear == clientFillScreen(Black)

(***************************************************************************)
(* The drawing primitives of Widget.  Each pixel goes through              *)
(* Widget.setPixel, which moves it by the widget's (x, y) and drops it     *)
(* when it leaves the screen of 64 x 64; width and height are not read.    *)
(* drawLine and drawText are loops of setPixel as drawRect is.             *)
(***************************************************************************)
ScreenSize == 64

\* Widget.setPixel(x, y, color) for every << x, y >> of a set of points
Plot(w, c, points, color) ==
    LET screen == {<< w.x + p[1], w.y + p[2] >> : p \in points}
        onScreen == {q \in screen : /\ q[1] >= 0 /\ q[1] < ScreenSize
                                    /\ q[2] >= 0 /\ q[2] < ScreenSize}
        inBuffer == {q \in onScreen : /\ q[1] >= 0 /\ q[1] < c.size
                                      /\ q[2] >= 0 /\ q[2] < c.size}
    IN  [c EXCEPT !.buffer = Store(@, inBuffer, color)]

Widget_setPixel(w, c, x, y, color) == Plot(w, c, {<< x, y >>}, color)

\* Widget.drawRect(x, y, width, height, color, filled)
Widget_drawRect(w, c, x, y, width, height, color, filled) ==
    LET points ==
          IF filled
          THEN {<< x + dx, y + dy >> : dx \in 0 .. width - 1, dy \in 0 .. height - 1}
          ELSE {<< x + dx, y >> : dx \in 0 .. width - 1}
               \cup {<< x + dx, y + height - 1 >> : dx \in 0 .. width - 1}
               \cup {<< x, y + dy >> : dy \in 0 .. height - 1}
               \cup {<< x + width - 1, y + dy >> : dy \in 0 .. height - 1}
    IN  Plot(w, c, points, color)

MaxDraws == 2

White == << 255, 255, 255 >>

\* a subtype's onRender calls a primitive
callSetPixel(x, y) ==
    /\ client.draws < MaxDraws
    /\ client' = [Widget_setPixel(cfgWidget, client, x, y, White)
                     EXCEPT !.draws = @ + 1,
                            !.last = [op |-> "Widget.setPixel", x |-> x, y |-> y,
                                      color |-> White]]
    /\ UNCHANGED << cfgWidget, pluginManager, deviceScanner >> /\ Apart

callDrawRect(x, y, width, height, filled) ==
    /\ client.draws < MaxDraws
    /\ client' = [Widget_drawRect(cfgWidget, client, x, y, width, height, White, filled)
                     EXCEPT !.draws = @ + 1,
                            !.last = [op |-> "Widget.drawRect", x |-> x, y |-> y,
                                      color |-> White]]
    /\ UNCHANGED << cfgWidget, pluginManager, deviceScanner >> /\ Apart

(***************************************************************************)
(* PluginManager.  A plugin object has an id, a name and a version (each   *)
(* may be missing), the widget classes it declares, by their TYPE, and the *)
(* hooks init and destroy, which may throw.  widgetTypes maps a TYPE to    *)
(* the class registered under it, named by the plugin that declared it.    *)
(***************************************************************************)
NoId == ""

PluginIds == {"a", "b"}

Declared == [a |-> {"clock", "text"}, b |-> {"clock"}]

ValidPlugins ==
    {[id |-> i, name |-> TRUE, version |-> TRUE, widgets |-> Declared[i],
      initThrows |-> it, destroyThrows |-> dt] :
        i \in PluginIds, it \in BOOLEAN, dt \in BOOLEAN}

InvalidPlugins ==
    {[id |-> NoId, name |-> TRUE, version |-> TRUE, widgets |-> Declared.a,
      initThrows |-> FALSE, destroyThrows |-> FALSE],
     [id |-> "a", name |-> FALSE, version |-> TRUE, widgets |-> Declared.a,
      initThrows |-> FALSE, destroyThrows |-> FALSE],
     [id |-> "a", name |-> TRUE, version |-> FALSE, widgets |-> Declared.a,
      initThrows |-> FALSE, destroyThrows |-> FALSE]}

NoPlugin ==
    [id |-> NoId, name |-> FALSE, version |-> FALSE, widgets |-> {},
     initThrows |-> FALSE, destroyThrows |-> FALSE]

\* new PluginManager()
PluginManager_new ==
    [ plugins     |-> [i \in {} |-> 0],
      widgetTypes |-> [t \in {} |-> NoId],
      last        |-> [op |-> "new", id |-> NoId, outcome |-> "returned",
                        caught |-> FALSE],   \* history: the last call, its result,
                                             \* whether its hook threw
      arg         |-> NoPlugin ]   \* history: the last plugin given to registerPlugin

\* PluginManager.registerPlugin(plugin), registerWidgetType included
Overwrite_registerPlugin(pm, plugin) ==
    IF plugin.id = NoId \/ ~plugin.name \/ ~plugin.version
    THEN [pm EXCEPT !.last = [op |-> "registerPlugin", id |-> plugin.id,
                              outcome |-> "threw", caught |-> FALSE],
                    !.arg = plugin]
    ELSE [ plugins     |-> [i \in DOMAIN pm.plugins \cup {plugin.id} |->
                              IF i = plugin.id THEN plugin ELSE pm.plugins[i]],
           widgetTypes |-> [t \in DOMAIN pm.widgetTypes \cup plugin.widgets |->
                              IF t \in plugin.widgets THEN plugin.id
                              ELSE pm.widgetTypes[t]],
           last        |-> [op |-> "registerPlugin", id |-> plugin.id,
                            outcome |-> IF plugin.id \in DOMAIN pm.plugins
                                        THEN "threw" ELSE "returned",
                            caught |-> plugin.initThrows],
           arg         |-> plugin ]

Rollback_registerPlugin(pm, plugin) ==
    IF \/ plugin.id = NoId \/ ~plugin.name \/ ~plugin.version
       \/ plugin.id \in DOMAIN pm.plugins
       \/ plugin.initThrows
    THEN [pm EXCEPT !.last = [op |-> "registerPlugin", id |-> plugin.id,
                              outcome |-> "threw", caught |-> FALSE],
                    !.arg = plugin]
    ELSE [ plugins     |-> [i \in DOMAIN pm.plugins \cup {plugin.id} |->
                              IF i = plugin.id THEN plugin ELSE pm.plugins[i]],
           widgetTypes |-> [t \in DOMAIN pm.widgetTypes \cup plugin.widgets |->
                              IF t \in plugin.widgets THEN plugin.id
                              ELSE pm.widgetTypes[t]],
           last        |-> [op |-> "registerPlugin", id |-> plugin.id,
                            outcome |-> "returned", caught |-> plugin.initThrows],
           arg         |-> plugin ]

registerPlugin(pm, plugin) ==
    IF \/ plugin.id = NoId \/ ~plugin.name \/ ~plugin.version
       \/ plugin.id \in DOMAIN pm.plugins
    THEN [pm EXCEPT !.last = [op |-> "registerPlugin", id |-> plugin.id,
                              outcome |-> "threw", caught |-> FALSE],
                    !.arg = plugin]
    ELSE \* plugin.init() runs last, in a try/catch
         [ plugins     |-> [i \in DOMAIN pm.plugins \cup {plugin.id} |->
                              IF i = plugin.id THEN plugin ELSE pm.plugins[i]],
           widgetTypes |-> [t \in DOMAIN pm.widgetTypes \cup plugin.widgets |->
                              IF t \in plugin.widgets THEN plugin.id
                              ELSE pm.widgetTypes[t]],
           last        |-> [op |-> "registerPlugin", id |-> plugin.id,
                            outcome |-> "returned", caught |-> plugin.initThrows],
           arg         |-> plugin ]

\* PluginManager.unregisterPlugin(pluginId), unregisterWidgetType included
KeepOnThrow_unregisterPlugin(pm, pluginId) ==
    IF pluginId \notin DOMAIN pm.plugins
    THEN [pm EXCEPT !.last = [op |-> "unregisterPlugin", id |-> pluginId,
                              outcome |-> "false", caught |-> FALSE]]
    ELSE LET plugin == pm.plugins[pluginId]
         IN  IF plugin.destroyThrows
             THEN [pm EXCEPT !.widgetTypes =
                                [t \in DOMAIN pm.widgetTypes \ plugin.widgets |->
                                    pm.widgetTypes[t]],
                             !.last = [op |-> "unregisterPlugin", id |-> pluginId,
                                       outcome |-> "threw", caught |-> FALSE]]
             ELSE [ plugins     |-> [i \in DOMAIN pm.plugins \ {pluginId} |->
                                        pm.plugins[i]],
                    widgetTypes |-> [t \in DOMAIN pm.widgetTypes \ plugin.widgets |->
                                        pm.widgetTypes[t]],
                    last        |-> [op |-> "unregisterPlugin", id |-> pluginId,
                                     outcome |-> "true", caught |-> plugin.destroyThrows],
                    arg         |-> pm.arg ]

unregisterPlugin(pm, pluginId) ==
    IF pluginId \notin DOMAIN pm.plugins
    THEN [pm EXCEPT !.last = [op |-> "unregisterPlugin", id |-> pluginId,
                              outcome |-> "false", caught |-> FALSE]]
    ELSE LET plugin == pm.plugins[pluginId]
         IN  \* plugin.destroy() runs in a try/catch
             [ plugins     |-> [i \in DOMAIN pm.plugins \ {pluginId} |->
                                  pm.plugins[i]],
               widgetTypes |-> [t \in DOMAIN pm.widgetTypes \ plugin.widgets |->
                                  pm.widgetTypes[t]],
               last        |-> [op |-> "unregisterPlugin", id |-> pluginId,
                                outcome |-> "true", caught |-> plugin.destroyThrows],
               arg         |-> pm.arg ]

callRegisterPlugin(plugin) ==
    /\ pluginManager' = registerPlugin(pluginManager, plugin)
    /\ UNCHANGED << cfgWidget, client, deviceScanner >> /\ Apart

callUnregisterPlugin(pluginId) ==
    /\ pluginManager' = unregisterPlugin(pluginManager, pluginId)
    /\ UNCHANGED << cfgWidget, client, deviceScanner >> /\ Apart

(***************************************************************************)
(* DeviceScanner.  scanNetwork is followed from suspension to suspension:  *)
(* its start up to the first await, the answer of detectLocalNetwork, the  *)
(* answer of each fetch of each testDevice, and the end of                 *)
(* Promise.allSettled.  The 254 addresses of a range are cut down to a     *)
(* few.                                                                    *)
(***************************************************************************)
ScanProcs == {"scan1", "scan2"}

Hosts == {1, 2}

\* the endpoints of testDevice, by their position in its list
scanEndpoints == 4

NotStarted == 0

Tested == scanEndpoints + 1

\* the endpoints of testDevice, in list order
testDeviceEndpoints ==
    << [port |-> 80,   path |-> "/post"],
       [port |-> 64,   path |-> "/post"],
       [port |-> 80,   path |-> "/api/post"],
       [port |-> 8080, path |-> "/post"] >>

\* the values of the fields of a JSON object: strings (as their characters),
\* numbers, and undefined for a field that is not there
JsString(chars) == [type |-> "string", chars |-> chars]

JsNumber(n) == [type |-> "number", num |-> n]

Undefined == [type |-> "undefined"]

Truthy(v) ==
    \/ v.type = "string" /\ v.chars # << >>
    \/ v.type = "number" /\ v.num # 0

Get(fields, key) == IF key \in DOMAIN fields THEN fields[key] ELSE Undefined

\* String.prototype.includes, on the characters of a string
IncludesChars(chars, token) ==
    \E i \in 1 .. Len(chars) - Len(token) + 1 :
        SubSeq(chars, i, i + Len(token) - 1) = token

Pixoo64 == << "P", "i", "x", "o", "o", "6", "4" >>
Pixoo32 == << "P", "i", "x", "o", "o", "3", "2" >>
Pixoo16 == << "P", "i", "x", "o", "o", "1", "6" >>
PixooMax == << "P", "i", "x", "o", "o", "M", "a", "x" >>
PixooDevice == << "P", "i", "x", "o", "o", " ", "D", "e", "v", "i", "c", "e" >>
Unknown == << "U", "n", "k", "n", "o", "w", "n" >>

\* what response.json() gives: it throws, or a JSON value (null, a number, an
\* object with its fields)
NoFields == << >>
Unreadable == [kind |-> "throws", fields |-> NoFields]
JsonNull == [kind |-> "null", fields |-> NoFields]
JsonNumber == [kind |-> "number", fields |-> NoFields]
JsonObject(fields) == [kind |-> "object", fields |-> fields]

\* what the fetch of an endpoint gives: it throws (refused, timed out), a
\* response that is not ok, or an ok response with its body
Responses ==
    { [status |-> "failed", body |-> Unreadable],
      [status |-> "notOk",  body |-> JsonObject([DeviceName |-> JsString(Pixoo64),
                                                 brightness |-> JsNumber(80)])],
      [status |-> "ok",     body |-> Unreadable],
      [status |-> "ok",     body |-> JsonNull],
      [status |-> "ok",     body |-> JsonNumber],
      [status |-> "ok",     body |-> JsonObject([DeviceName |-> JsString(Pixoo64)])],
      [status |-> "ok",     body |-> JsonObject([DeviceName |-> JsString(Pixoo64),
                                                 brightness |-> JsNumber(80),
                                                 channel    |-> JsNumber(1)])],
      [status |-> "ok",     body |-> JsonObject([error_code |-> JsNumber(0),
                                                 DeviceId   |-> JsNumber(7),
                                                 model      |-> JsString(Pixoo32)])],
      [status |-> "ok",     body |-> JsonObject([ReturnCode  |-> JsNumber(0),
                                                 DeviceName  |-> JsString(PixooMax),
                                                 DeviceModel |-> JsString(Pixoo16)])],
      [status |-> "ok",     body |-> JsonObject([error_code  |-> JsNumber(0),
                                                 DeviceId    |-> JsNumber(7),
                                                 DeviceModel |-> JsNumber(64)])] }

Indicators == {"error_code", "ReturnCode", "DeviceName", "DeviceId", "brightness", "channel"}

isPixooDevice(data) ==
    /\ data.kind = "object"
    /\ Cardinality(Indicators \cap DOMAIN data.fields) >= 2

\* a || b || c || fallback
FirstTruthy(values, fallback) ==
    IF \E i \in DOMAIN values : Truthy(values[i])
    THEN values[CHOOSE i \in DOMAIN values :
                   Truthy(values[i]) /\ \A j \in 1 .. i - 1 : ~Truthy(values[j])]
    ELSE fallback

extractDeviceName(fields) ==
    FirstTruthy(<< Get(fields, "DeviceName"), Get(fields, "device_name"),
                   Get(fields, "name") >>, JsString(PixooDevice))

extractDeviceModel(fields) ==
    FirstTruthy(<< Get(fields, "DeviceModel"), Get(fields, "model"),
                   Get(fields, "HardwareInfo") >>, JsString(Unknown))

\* extractDeviceSize: the size, or the TypeError of calling includes on a
\* DeviceModel that is a number
extractDeviceSize(fields) ==
    LET deviceModel == Get(fields, "DeviceModel")
    IN IF ~Truthy(deviceModel)
       THEN [threw |-> FALSE, size |-> 64]
       ELSE IF deviceModel.type # "string"
       THEN [threw |-> TRUE, size |-> 0]
       ELSE IF IncludesChars(deviceModel.chars, << "6", "4" >>)
       THEN [threw |-> FALSE, size |-> 64]
       ELSE IF IncludesChars(deviceModel.chars, << "3", "2" >>)
       THEN [threw |-> FALSE, size |-> 32]
       ELSE IF IncludesChars(deviceModel.chars, << "1", "6" >>)
       THEN [threw |-> FALSE, size |-> 16]
       ELSE [threw |-> FALSE, size |-> 64]

NoDevice ==
    [ port |-> NoPort, path |-> NoPath, name |-> Undefined, model |-> Undefined,
      size |-> 0 ]

IdleScan ==
    [ pc         |-> "idle",                       \* idle, detect, probing, returned
      probes     |-> [ip \in Hosts |-> NotStarted], \* testDevice(ip): the endpoint it is at
      result     |-> {},                           \* the addresses of the returned array
      guarded    |-> FALSE,                        \* history: returned by the isScanning guard
      answered   |-> [ip \in Hosts |-> 0],         \* history: the fetches of testDevice(ip) that answered
      classified |-> [ip \in Hosts |-> FALSE] ]    \* history: an answer was ok, readable and passed isPixooDevice

\* new DeviceScanner(); the Map discoveredDevices by its keys and its values
DeviceScanner_new ==
    [ isScanning        |-> FALSE,
      discoveredDevices |-> {},
      deviceInfo        |-> [ip \in Hosts |-> NoDevice],
      calls             |-> [p \in ScanProcs |-> IdleScan] ]

\* scanNetwork(baseIp) up to its first await; given: baseIp is not null
Unguarded_scanStart(p, given) ==
    /\ deviceScanner.calls[p].pc \in {"idle", "returned"}
    /\ deviceScanner' =
          [ isScanning        |-> TRUE,
            discoveredDevices |-> {},
            deviceInfo        |-> [ip \in Hosts |-> NoDevice],
            calls             |-> [deviceScanner.calls EXCEPT ![p] =
                [IdleScan EXCEPT
                    !.pc = IF given THEN "probing" ELSE "detect",
                    !.probes = [ip \in Hosts |-> IF given THEN 1 ELSE NotStarted]]] ]
    /\ UNCHANGED << cfgWidget, client, pluginManager >> /\ Apart

scanStart(p, given) ==
    /\ deviceScanner.calls[p].pc \in {"idle", "returned"}
    /\ deviceScanner' =
          IF deviceScanner.isScanning
          THEN [deviceScanner EXCEPT !.calls[p] =
                  [IdleScan EXCEPT
                      !.pc = "returned",
                      !.result = deviceScanner.discoveredDevices,
                      !.guarded = TRUE]]
          ELSE [ isScanning        |-> TRUE,
                 discoveredDevices |-> {},
                 deviceInfo        |-> [ip \in Hosts |-> NoDevice],
                 calls             |-> [deviceScanner.calls EXCEPT ![p] =
                     [IdleScan EXCEPT
                         !.pc = IF given THEN "probing" ELSE "detect",
                         !.probes = [ip \in Hosts |->
                                        IF given THEN 1 ELSE NotStarted]]] ]
    /\ UNCHANGED << cfgWidget, client, pluginManager >> /\ Apart

\* detectLocalNetwork() answers (it falls back to 192.168.1, never to null):
\* the loop starts testDevice for every address
detectDone(p) ==
    /\ deviceScanner.calls[p].pc = "detect"
    /\ deviceScanner' = [deviceScanner EXCEPT
            !.calls[p].pc = "probing",
            !.calls[p].probes = [ip \in Hosts |-> 1]]
    /\ UNCHANGED << cfgWidget, client, pluginManager >> /\ Apart

\* testDevice(ip): the fetch of its current endpoint answers.  A response
\* that is not ok, a body that json() rejects, a body that is no device, and
\* the TypeError of extractDeviceSize (caught like the others) go on to the
\* next endpoint; a device is put into the Map and ends testDevice.
probeAnswer(p, ip, response) ==
    /\ deviceScanner.calls[p].pc = "probing"
    /\ deviceScanner.calls[p].probes[ip] \in 1 .. scanEndpoints
    /\ LET endpoint == testDeviceEndpoints[deviceScanner.calls[p].probes[ip]]
           data == response.body
           readable == response.status = "ok" /\ data.kind # "throws"
           isDevice == readable /\ isPixooDevice(data)
           size == extractDeviceSize(data.fields)
           heard == [deviceScanner EXCEPT
                       !.calls[p].answered[ip] = @ + 1,
                       !.calls[p].classified[ip] = @ \/ isDevice]
       IN deviceScanner' =
             IF isDevice /\ ~size.threw
             THEN [heard EXCEPT
                     !.discoveredDevices = @ \cup {ip},
                     !.deviceInfo[ip] =
                         [ port  |-> endpoint.port,
                           path  |-> endpoint.path,
                           name  |-> extractDeviceName(data.fields),
                           model |-> extractDeviceModel(data.fields),
                           size  |-> size.size ],
                     !.calls[p].probes[ip] = Tested]
             ELSE [heard EXCEPT !.calls[p].probes[ip] = @ + 1]
    /\ UNCHANGED << cfgWidget, client, pluginManager >> /\ Apart

\* Promise.allSettled resolves, finally, return
scanFinish(p) ==
    /\ deviceScanner.calls[p].pc = "probing"
    /\ \A ip \in Hosts : deviceScanner.calls[p].probes[ip] = Tested
    /\ deviceScanner' = [deviceScanner EXCEPT
            !.isScanning = FALSE,
            !.calls[p].pc = "returned",
            !.calls[p].result = deviceScanner.discoveredDevices]
    /\ UNCHANGED << cfgWidget, client, pluginManager >> /\ Apart

\* the units of a specification that is not about them
UnitInit ==
    /\ cfgWidget = Widget_new([color |-> 1])
    /\ client = PixooClient_new(ScreenSize)
    /\ pluginManager = PluginManager_new
    /\ deviceScanner = DeviceScanner_new

\* specifications that are not about a widget on its own leave one aside
WidgetInit ==
    /\ removed = << >>
    /\ now = 0
    /\ widget = Constructed("base", NoConfig)
    /\ UnitInit

\* the test of render(): now - last >= interval
Strict_Due(t, last, interval) == t - last > interval

Due(t, last, interval) == t - last >= interval

\* Widget.render at time t; a throw of onRender leaves render() before
\* lastUpdate is set
Widget_render(w, t, hookThrows) ==
    LET called == [w EXCEPT !.calls = w.calls + 1, !.fetchFailed = FALSE,
                            !.thrown = FALSE]
    IN IF ~w.initialized \/ ~w.enabled
       THEN called
       ELSE IF ~Due(t, w.lastUpdate, w.updateInterval)
       THEN called
       ELSE IF hookThrows
       THEN [called EXCEPT !.draws = w.draws + 1, !.hookArg = 0, !.thrown = TRUE]
       ELSE [called EXCEPT !.draws = w.draws + 1, !.hookArg = 0,
                           !.prevUpdate = w.lastUpdate, !.lastUpdate = t]

\* AnimatedWidget.render at time t
ByUpdateInterval_AnimatedWidget_render(w, t, hookThrows) ==
    LET called == [w EXCEPT !.calls = w.calls + 1, !.fetchFailed = FALSE,
                            !.thrown = FALSE]
    IN IF ~w.initialized \/ ~w.enabled
       THEN called
       ELSE IF ~Due(t, w.lastUpdate, w.updateInterval)
       THEN called
       ELSE IF hookThrows
       THEN [called EXCEPT !.draws = w.draws + 1, !.hookArg = w.animationFrame,
                           !.thrown = TRUE]
       ELSE [called EXCEPT !.draws = w.draws + 1, !.hookArg = w.animationFrame,
                           !.animationFrame = w.animationFrame + 1,
                           !.prevUpdate = w.lastUpdate, !.lastUpdate = t]

AnimatedWidget_render(w, t, hookThrows) ==
    LET called == [w EXCEPT !.calls = w.calls + 1, !.fetchFailed = FALSE,
                            !.thrown = FALSE]
    IN IF ~w.initialized \/ ~w.enabled
       THEN called
       ELSE IF ~Due(t, w.lastUpdate, w.animationSpeed)
       THEN called
       ELSE IF hookThrows
       THEN [called EXCEPT !.draws = w.draws + 1, !.hookArg = w.animationFrame,
                           !.thrown = TRUE]
       ELSE [called EXCEPT !.draws = w.draws + 1, !.hookArg = w.animationFrame,
                           !.animationFrame = w.animationFrame + 1,
                           !.prevUpdate = w.lastUpdate, !.lastUpdate = t]

\* what fetchData gives: a value, or a throw
DataValues == {1, 2}
FetchResults == [ok : BOOLEAN, value : DataValues]

\* the fetch part of DataWidget.render at time t
DropOnFailure_DataWidget_fetch(w, t, fetch) ==
    IF ~Due(t, w.lastDataFetch, w.dataFetchInterval)
    THEN w
    ELSE IF fetch.ok
    THEN [w EXCEPT !.fetches = w.fetches + 1, !.data = fetch.value,
                   !.lastDataFetch = t]
    ELSE [w EXCEPT !.fetches = w.fetches + 1, !.data = NoData, !.fetchFailed = TRUE]

DataWidget_fetch(w, t, fetch) ==
    IF ~Due(t, w.lastDataFetch, w.dataFetchInterval)
    THEN w
    ELSE IF fetch.ok
    THEN [w EXCEPT !.fetches = w.fetches + 1, !.data = fetch.value,
                   !.lastDataFetch = t]
    ELSE [w EXCEPT !.fetches = w.fetches + 1, !.fetchFailed = TRUE]

\* DataWidget.render at time t: the fetch when it is due, then the draw with
\* the data when it is due
DataWidget_render(w, t, fetch, hookThrows) ==
    LET called == [w EXCEPT !.calls = w.calls + 1, !.fetchFailed = FALSE,
                            !.thrown = FALSE]
    IN IF ~w.initialized \/ ~w.enabled
       THEN called
       ELSE LET f == DataWidget_fetch(called, t, fetch)
            IN IF ~Due(t, f.lastUpdate, f.updateInterval)
               THEN f
               ELSE IF hookThrows
               THEN [f EXCEPT !.draws = f.draws + 1, !.hookArg = f.data,
                              !.thrown = TRUE]
               ELSE [f EXCEPT !.draws = f.draws + 1, !.hookArg = f.data,
                              !.prevUpdate = f.lastUpdate, !.lastUpdate = t]

\* render() of the widget, by its class
RenderOf(w, t, fetch, hookThrows) ==
    IF w.kind = "animated" THEN AnimatedWidget_render(w, t, hookThrows)
    ELSE IF w.kind = "data" THEN DataWidget_render(w, t, fetch, hookThrows)
    ELSE Widget_render(w, t, hookThrows)

\* Widget.updateConfig with a config that may hold updateInterval (0: not)
\* and enabled ("unset": not); config.enabled has a value since the
\* constructor, so enabled is always taken from the config
Widget_updateConfig(w, updateInterval, enabled) ==
    LET configEnabled == IF enabled = "unset" THEN w.configEnabled
                         ELSE enabled = "true"
    IN [w EXCEPT !.updateInterval = Or(updateInterval, w.updateInterval),
                 !.configEnabled = configEnabled,
                 !.enabled = configEnabled]

(***************************************************************************)
(* The calls on the widget taken on its own, and the clock.                *)
(***************************************************************************)
Alone ==
    UNCHANGED linkVars /\ UNCHANGED sceneVars /\ UNCHANGED removed /\ UNCHANGED unitVars

callInit ==
    /\ widget' = Widget_init(widget)
    /\ UNCHANGED now /\ Alone

ResetFrame_callDestroy(throws) ==
    /\ widget' = [Widget_destroy(widget, throws) EXCEPT !.animationFrame = 0]
    /\ UNCHANGED now /\ Alone

callDestroy(throws) ==
    /\ widget' = Widget_destroy(widget, throws)
    /\ UNCHANGED now /\ Alone

callRender(fetch, hookThrows) ==
    /\ widget.calls < MaxCalls
    /\ widget' = RenderOf(widget, now, fetch, hookThrows)
    /\ UNCHANGED now /\ Alone

callSetEnabled(enabled) ==
    /\ widget' = [widget EXCEPT !.enabled = enabled]
    /\ UNCHANGED now /\ Alone

callUpdateConfig(updateInterval, enabled) ==
    /\ widget' = Widget_updateConfig(widget, updateInterval, enabled)
    /\ UNCHANGED now /\ Alone

\* AnimatedWidget.resetAnimation
resetAnimation ==
    /\ widget.kind = "animated"
    /\ widget' = [widget EXCEPT !.animationFrame = 0]
    /\ UNCHANGED now /\ Alone

\* DataWidget.refreshData
refreshData ==
    /\ widget.kind = "data"
    /\ widget' = [widget EXCEPT !.lastDataFetch = 0]
    /\ UNCHANGED now /\ Alone

\* Scene.renderPreview on the scene of the widget: the buffer is cleared, then
\* render() of the widget when it is enabled; nothing is pushed.  The buffer
\* then holds the widget when its hook was called.
renderPreview(fetch, hookThrows) ==
    /\ widget.calls < MaxCalls
    /\ task = NoTask
    /\ LET rendered == IF widget.enabled
                       THEN RenderOf(widget, now, fetch, hookThrows)
                       ELSE widget
       IN /\ widget' = rendered
          /\ buffer' = IF rendered.draws > widget.draws THEN {1} ELSE {}
    /\ UNCHANGED << sceneCounter, scenes, activeScene, activeSceneId, sceneObj, task,
                    renders >>
    /\ UNCHANGED << now, removed >> /\ UNCHANGED linkVars /\ UNCHANGED unitVars

\* the clock goes on by a millisecond
ClockAdvance(limit) ==
    /\ now < limit
    /\ now' = now + 1
    /\ UNCHANGED widget /\ Alone

\* a tick of a scene timer reaches the widget: render() with a fetchData that
\* succeeds and a draw hook that returns, and the clock is at the next tick
TickPeriod == 1000

ScenarioTick(fetch) ==
    /\ widget.calls < MaxTicks
    /\ fetch.ok
    /\ widget' = RenderOf(widget, now, fetch, FALSE)
    /\ now' = now + TickPeriod
    /\ Alone

(***************************************************************************)
(* Scene.render, one call per tick of the scene's interval timer, and the  *)
(* play and stop controls.  The hooks of the widgets draw without waiting  *)
(* for anything (as those of the built-in widgets do), so a render() call  *)
(* is suspended only in push(), on the fetch and the backoff timers of     *)
(* sendCommand.                                                            *)
(***************************************************************************)
RenderTask(r) == [op |-> "render", sceneId |-> NoScene, proc |-> r]

\* what the render() of an enabled, initialized widget does on a tick: it is
\* not due, its hook draws, or its hook throws
HookOutcomes == {"skip", "draw", "throw"}

\* the timer of scene s fires: render() up to the clear of the buffer
Tick(r, s) ==
    /\ task = NoTask
    /\ renders[r].pc = "idle"
    /\ sceneObj[s].liveTimers > 0
    /\ IF ~sceneObj[s].isActive
       THEN UNCHANGED << renders, buffer, task >>
       ELSE /\ buffer' = {}
            /\ renders' = [renders EXCEPT ![r] = [IdleRender EXCEPT
                                                    !.pc = "widgets", !.scene = s,
                                                    !.pushFailed = renders[r].pushFailed]]
            /\ task' = RenderTask(r)
    /\ UNCHANGED << sceneCounter, scenes, activeScene, activeSceneId, sceneObj >>
    /\ UNCHANGED linkVars

\* the loop of render() at the next widget; a throw leaves the loop for the
\* catch at the end of render()
RenderWidget(r, outcome) ==
    /\ task = RenderTask(r)
    /\ renders[r].pc = "widgets"
    /\ renders[r].cur < Len(sceneObj[renders[r].scene].widgets)
    /\ LET s == renders[r].scene
           i == renders[r].cur + 1
           w == sceneObj[s].widgets[i]
       IN IF ~w.enabled
          THEN /\ renders' = [renders EXCEPT ![r].cur = i]
               /\ UNCHANGED << buffer, task >>
          ELSE IF ~w.initialized \/ outcome = "skip"
          THEN /\ renders' = [renders EXCEPT
                                ![r].cur = i,
                                ![r].visited = renders[r].visited \cup {i}]
               /\ UNCHANGED << buffer, task >>
          ELSE IF outcome = "draw"
          THEN /\ renders' = [renders EXCEPT
                                ![r].cur = i,
                                ![r].visited = renders[r].visited \cup {i},
                                ![r].late = renders[r].late \/ ~sceneObj[s].isActive]
               /\ buffer' = buffer \cup {i}
               /\ UNCHANGED task
          ELSE /\ renders' = [renders EXCEPT
                                ![r].pc = "done",
                                ![r].cur = i,
                                ![r].visited = renders[r].visited \cup {i},
                                ![r].threw = i]
               /\ task' = NoTask
               /\ UNCHANGED buffer
    /\ UNCHANGED << sceneCounter, scenes, activeScene, activeSceneId, sceneObj >>
    /\ UNCHANGED linkVars

\* after the last widget: push() when the client is connected, up to the
\* first fetch of sendCommand; an error sendCommand throws is caught
RenderPush(r) ==
    /\ task = RenderTask(r)
    /\ renders[r].pc = "widgets"
    /\ renders[r].cur >= Len(sceneObj[renders[r].scene].widgets)
    /\ task' = NoTask
    /\ IF ~connected
       THEN /\ renders' = [renders EXCEPT ![r].pc = "done"]
            /\ UNCHANGED sends
       ELSE IF ~HasEndpoint(connectionState)
       THEN /\ renders' = [renders EXCEPT ![r].pc = "done", ![r].pushed = TRUE,
                                          ![r].pushFailed = TRUE]
            /\ UNCHANGED sends
       ELSE /\ renders' = [renders EXCEPT
                             ![r].pc = "push",
                             ![r].pushed = TRUE,
                             ![r].late = renders[r].late
                                            \/ ~sceneObj[renders[r].scene].isActive]
            /\ sends' = [sends EXCEPT
                           ![r] = Transmit([sends[r] EXCEPT
                                              !.port = connectionState.port,
                                              !.path = connectionState.path], 1)]
    /\ UNCHANGED << ipAddress, connected, connectionState, conns, lastGood >>
    /\ UNCHANGED << sceneCounter, scenes, activeScene, activeSceneId, sceneObj, buffer >>

\* the fetch of the push completed
PushFetchOk(r) ==
    /\ task = NoTask
    /\ renders[r].pc = "push"
    /\ FetchOk(r)
    /\ UNCHANGED sceneVars

\* the fetch of the push threw
PushFetchErr(r, e) ==
    /\ task = NoTask
    /\ renders[r].pc = "push"
    /\ FetchErr(r, e)
    /\ UNCHANGED sceneVars

\* the backoff timer of the push fired: the next fetch call
PushBackoffDone(r) ==
    /\ task = NoTask
    /\ renders[r].pc = "push"
    /\ BackoffDone(r)
    /\ renders' = [renders EXCEPT
                     ![r].late = renders[r].late
                                    \/ ~sceneObj[renders[r].scene].isActive]
    /\ UNCHANGED << sceneCounter, scenes, activeScene, activeSceneId, sceneObj, task,
                    buffer >>

\* push() returned or threw (caught and logged): render() is over
StopOnFailure_PushDone(r) ==
    /\ task = NoTask
    /\ renders[r].pc = "push"
    /\ SendReturn(r)
    /\ renders' = [renders EXCEPT
                     ![r].pc = "done",
                     ![r].pushFailed = renders[r].pushFailed \/ sends[r].pc = "failed"]
    /\ sceneObj' = IF sends[r].pc = "failed"
                   THEN [sceneObj EXCEPT ![renders[r].scene] = Scene_stop(@, {})]
                   ELSE sceneObj
    /\ UNCHANGED << sceneCounter, scenes, activeScene, activeSceneId, task, buffer >>

PushDone(r) ==
    /\ task = NoTask
    /\ renders[r].pc = "push"
    /\ SendReturn(r)
    /\ renders' = [renders EXCEPT
                     ![r].pc = "done",
                     ![r].pushFailed = renders[r].pushFailed \/ sends[r].pc = "failed"]
    /\ UNCHANGED << sceneCounter, scenes, activeScene, activeSceneId, sceneObj, task,
                    buffer >>

\* the promise of a render() call is dropped by the timer callback
RenderReturn(r) ==
    /\ task = NoTask
    /\ renders[r].pc = "done"
    /\ renders' = [renders EXCEPT ![r] = [IdleRender EXCEPT
                                            !.pushFailed = renders[r].pushFailed]]
    /\ UNCHANGED << sceneCounter, scenes, activeScene, activeSceneId, sceneObj, task,
                    buffer >>
    /\ UNCHANGED linkVars

\* the stop control: Scene.stop on the scene
stopScene(s) ==
    /\ task = NoTask
    /\ \E T \in SUBSET (1..MaxWidgets) :
          sceneObj' = [sceneObj EXCEPT ![s] = Scene_stop(@, T)]
    /\ UNCHANGED << sceneCounter, scenes, activeScene, activeSceneId, task, renders,
                    buffer >>
    /\ UNCHANGED linkVars

\* the play control: Scene.start on the scene
playScene(s) ==
    /\ task = NoTask
    /\ sceneObj' = [sceneObj EXCEPT ![s] = Scene_start(@)]
    /\ UNCHANGED << sceneCounter, scenes, activeScene, activeSceneId, task, renders,
                    buffer >>
    /\ UNCHANGED linkVars

(***************************************************************************)
(* The methods of a Scene object called on it directly (the object that    *)
(* createScene returns and getScene gives), and Widget.setEnabled on one   *)
(* of its widgets.                                                         *)
(***************************************************************************)
\* Scene.start
start(s) ==
    /\ task = NoTask
    /\ Has(scenes, s)
    /\ sceneObj' = [sceneObj EXCEPT ![s] = Scene_start(@)]
    /\ UNCHANGED << sceneCounter, scenes, activeScene, activeSceneId, task, renders,
                    buffer >>
    /\ UNCHANGED linkVars
    /\ UNCHANGED widgetVars

\* Scene.stop; T: the widgets whose onDestroy hook throws
stop(s, T) ==
    /\ task = NoTask
    /\ Has(scenes, s)
    /\ sceneObj' = [sceneObj EXCEPT ![s] = Scene_stop(@, T)]
    /\ UNCHANGED << sceneCounter, scenes, activeScene, activeSceneId, task, renders,
                    buffer >>
    /\ UNCHANGED linkVars
    /\ UNCHANGED widgetVars

\* Scene.setRefreshRate(rate): Math.max(100, rate), and the timer of an
\* active scene is cleared and set again
NoFloor_setRefreshRate(s, rate) ==
    /\ task = NoTask
    /\ Has(scenes, s)
    /\ sceneObj' = [sceneObj EXCEPT
          ![s].refreshRate = rate,
          ![s].period = IF sceneObj[s].isActive /\ sceneObj[s].updateInterval
                        THEN rate ELSE @]
    /\ UNCHANGED << sceneCounter, scenes, activeScene, activeSceneId, task, renders,
                    buffer >>
    /\ UNCHANGED linkVars
    /\ UNCHANGED widgetVars

NoClear_setRefreshRate(s, rate) ==
    /\ task = NoTask
    /\ Has(scenes, s)
    /\ LET refreshRate == IF rate > MinRefreshRate THEN rate ELSE MinRefreshRate
       IN  sceneObj' = [sceneObj EXCEPT
              ![s].refreshRate = refreshRate,
              ![s].liveTimers = IF sceneObj[s].isActive /\ sceneObj[s].updateInterval
                                THEN @ + 1 ELSE @,
              ![s].period = IF sceneObj[s].isActive /\ sceneObj[s].updateInterval
                            THEN refreshRate ELSE @]
    /\ UNCHANGED << sceneCounter, scenes, activeScene, activeSceneId, task, renders,
                    buffer >>
    /\ UNCHANGED linkVars
    /\ UNCHANGED widgetVars

setRefreshRate(s, rate) ==
    /\ task = NoTask
    /\ Has(scenes, s)
    /\ LET refreshRate == IF rate > MinRefreshRate THEN rate ELSE MinRefreshRate
       IN  sceneObj' = [sceneObj EXCEPT
              ![s].refreshRate = refreshRate,
              \* clearInterval and setInterval: one timer less, one more
              ![s].liveTimers = IF sceneObj[s].isActive /\ sceneObj[s].updateInterval
                                THEN (@ - 1) + 1 ELSE @,
              ![s].period = IF sceneObj[s].isActive /\ sceneObj[s].updateInterval
                            THEN refreshRate ELSE @]
    /\ UNCHANGED << sceneCounter, scenes, activeScene, activeSceneId, task, renders,
                    buffer >>
    /\ UNCHANGED linkVars
    /\ UNCHANGED widgetVars

\* Scene.addWidget: the new widget is initialized when the scene is active
NoInit_addWidget(s) ==
    /\ task = NoTask
    /\ Has(scenes, s)
    /\ Len(sceneObj[s].widgets) < MaxWidgets
    /\ sceneObj' = [sceneObj EXCEPT ![s].widgets = Append(@, NewWidget)]
    /\ UNCHANGED << sceneCounter, scenes, activeScene, activeSceneId, task, renders,
                    buffer >>
    /\ UNCHANGED linkVars
    /\ UNCHANGED widgetVars

addWidget(s) ==
    /\ task = NoTask
    /\ Has(scenes, s)
    /\ Len(sceneObj[s].widgets) < MaxWidgets
    /\ sceneObj' = [sceneObj EXCEPT
                      ![s].widgets = Append(@, IF sceneObj[s].isActive
                                               THEN Widget_init(NewWidget)
                                               ELSE NewWidget)]
    /\ UNCHANGED << sceneCounter, scenes, activeScene, activeSceneId, task, renders,
                    buffer >>
    /\ UNCHANGED linkVars
    /\ UNCHANGED widgetVars

\* the sequence without its element i
Without(seq, i) ==
    [j \in 1..(Len(seq) - 1) |-> IF j < i THEN seq[j] ELSE seq[j + 1]]

\* Scene.removeWidget of the widget at position i of the map: destroy(), then
\* the delete; a throw of the onDestroy hook leaves removeWidget before the
\* delete
removeWidget(s, i, throws) ==
    /\ task = NoTask
    /\ Has(scenes, s)
    /\ i \in DOMAIN sceneObj[s].widgets
    /\ Len(removed) < MaxRemoved
    /\ LET w == sceneObj[s].widgets[i]
       IN IF w.initialized /\ throws
          THEN UNCHANGED << sceneObj, removed >>
          ELSE /\ sceneObj' = [sceneObj EXCEPT ![s].widgets = Without(@, i)]
               /\ removed' = Append(removed, Widget_destroy(w, FALSE))
    /\ UNCHANGED << sceneCounter, scenes, activeScene, activeSceneId, task, renders,
                    buffer >>
    /\ UNCHANGED linkVars
    /\ UNCHANGED << now, widget >> /\ UNCHANGED unitVars

\* Widget.setEnabled on the widget at position i
setEnabled(s, i, enabled) ==
    /\ task = NoTask
    /\ Has(scenes, s)
    /\ i \in DOMAIN sceneObj[s].widgets
    /\ sceneObj' = [sceneObj EXCEPT ![s].widgets[i].enabled = enabled]
    /\ UNCHANGED << sceneCounter, scenes, activeScene, activeSceneId, task, renders,
                    buffer >>
    /\ UNCHANGED linkVars
    /\ UNCHANGED widgetVars

(***************************************************************************)
(* The device link on its own: connect() and sendCommand() calls in any    *)
(* interleaving of their suspension points.                                *)
(***************************************************************************)
LinkNext ==
    \/ SetIpAddress /\ UNCHANGED sceneVars /\ UNCHANGED widgetVars
    \/ \E c \in ConnProcs : ConnectStart(c) /\ UNCHANGED sceneVars /\ UNCHANGED widgetVars
    \/ \E c \in ConnProcs : PreferredOk(c) /\ UNCHANGED sceneVars /\ UNCHANGED widgetVars
    \/ \E c \in ConnProcs, e \in ProbeErrors : PreferredErr(c, e) /\ UNCHANGED sceneVars /\ UNCHANGED widgetVars
    \/ \E c \in ConnProcs : EndpointOk(c) /\ UNCHANGED sceneVars /\ UNCHANGED widgetVars
    \/ \E c \in ConnProcs, e \in ProbeErrors : EndpointErr(c, e) /\ UNCHANGED sceneVars /\ UNCHANGED widgetVars
    \/ \E c \in ConnProcs : ConnectReturn(c) /\ UNCHANGED sceneVars /\ UNCHANGED widgetVars
    \/ \E p \in LinkSendProcs : SendStart(p) /\ UNCHANGED sceneVars /\ UNCHANGED widgetVars
    \/ \E p \in LinkSendProcs : FetchOk(p) /\ UNCHANGED sceneVars /\ UNCHANGED widgetVars
    \/ \E p \in LinkSendProcs, e \in SendErrors : FetchErr(p, e) /\ UNCHANGED sceneVars /\ UNCHANGED widgetVars
    \/ \E p \in LinkSendProcs : BackoffDone(p) /\ UNCHANGED sceneVars /\ UNCHANGED widgetVars
    \/ \E p \in LinkSendProcs : SendReturn(p) /\ UNCHANGED sceneVars /\ UNCHANGED widgetVars

LinkSpecInit == LinkInit /\ SceneInit /\ WidgetInit

SpecLink == LinkSpecInit /\ [][LinkNext]_vars

(***************************************************************************)
(* Two sendCommand() calls side by side on a connected client (a scene     *)
(* tick's push and a brightness change, or the pushes of two ticks): the   *)
(* state after a successful connect() to any of the endpoints.             *)
(***************************************************************************)
ConnectedLink ==
    /\ ipAddress = DeviceIp
    /\ connected = TRUE
    /\ \E i \in 1..Len(Endpoints) :
          /\ connectionState = [port |-> Endpoints[i].port, path |-> Endpoints[i].path,
                                lastConnected |-> TRUE]
          /\ lastGood = Endpoints[i]
    /\ conns = [c \in ConnProcs |-> IdleConn]
    /\ sends = [p \in Senders |-> IdleSend]

ConnectedInit == ConnectedLink /\ SceneInit /\ WidgetInit

SendsNext ==
    \/ \E p \in SendProcs : SendStart(p) /\ UNCHANGED sceneVars /\ UNCHANGED widgetVars
    \/ \E p \in SendProcs : FetchOk(p) /\ UNCHANGED sceneVars /\ UNCHANGED widgetVars
    \/ \E p \in SendProcs, e \in SendErrors : FetchErr(p, e) /\ UNCHANGED sceneVars /\ UNCHANGED widgetVars
    \/ \E p \in SendProcs : BackoffDone(p) /\ UNCHANGED sceneVars /\ UNCHANGED widgetVars
    \/ \E p \in SendProcs : SendReturn(p) /\ UNCHANGED sceneVars /\ UNCHANGED widgetVars

SpecSends == ConnectedInit /\ [][SendsNext]_vars

(***************************************************************************)
(* The SceneManager on its own: createScene, setActiveScene and            *)
(* deleteScene in any order.                                               *)
(***************************************************************************)
ManagerNext ==
    \/ createScene /\ UNCHANGED linkVars /\ UNCHANGED widgetVars
    \/ \E sceneId \in SceneIds : setActiveScene(sceneId) /\ UNCHANGED linkVars /\ UNCHANGED widgetVars
    \/ setActiveScene_start /\ UNCHANGED linkVars /\ UNCHANGED widgetVars
    \/ \E sceneId \in SceneIds : deleteScene(sceneId) /\ UNCHANGED linkVars /\ UNCHANGED widgetVars

ManagerInit == LinkInit /\ SceneInit /\ WidgetInit

SpecManager == ManagerInit /\ [][ManagerNext]_vars

(***************************************************************************)
(* The render loop of one scene on a connected client: the scene is the    *)
(* first one created (so the active one, started) and got its widgets by   *)
(* addWidget since (so initialized).  Its timer ticks, and the play and    *)
(* stop controls are used, in any interleaving with the push of a tick.    *)
(***************************************************************************)
RunningScene ==
    [ isActive       |-> TRUE,
      updateInterval |-> TRUE,
      liveTimers     |-> 1,
      widgets        |-> [i \in 1..MaxWidgets |-> Widget_init(NewWidget)],
      refreshRate    |-> DefaultRefreshRate,
      period         |-> DefaultRefreshRate ]

RenderInit ==
    /\ ConnectedLink
    /\ sceneCounter = 1
    /\ scenes = << 1 >>
    /\ activeScene = 1
    /\ activeSceneId = 1
    /\ sceneObj = [s \in SceneIds |-> IF s = 1 THEN RunningScene ELSE NewScene]
    /\ task = NoTask
    /\ renders = [r \in RenderProcs |-> IdleRender]
    /\ buffer = {}
    /\ WidgetInit

RenderNext ==
    \/ \E r \in OneRender : Tick(r, 1) /\ UNCHANGED widgetVars
    \/ \E r \in OneRender, outcome \in HookOutcomes : RenderWidget(r, outcome) /\ UNCHANGED widgetVars
    \/ \E r \in OneRender : RenderPush(r) /\ UNCHANGED widgetVars
    \/ \E r \in OneRender : PushFetchOk(r) /\ UNCHANGED widgetVars
    \/ \E r \in OneRender, e \in SendErrors : PushFetchErr(r, e) /\ UNCHANGED widgetVars
    \/ \E r \in OneRender : PushBackoffDone(r) /\ UNCHANGED widgetVars
    \/ \E r \in OneRender : PushDone(r) /\ UNCHANGED widgetVars
    \/ \E r \in OneRender : RenderReturn(r) /\ UNCHANGED widgetVars
    \/ stopScene(1) /\ UNCHANGED widgetVars
    \/ playScene(1) /\ UNCHANGED widgetVars

SpecRender == RenderInit /\ [][RenderNext]_vars

(***************************************************************************)
(* The same scene with the calls of render() that two ticks of its timer   *)
(* make: setInterval fires the callback every refreshRate, whether the     *)
(* render() of the tick before has returned or not.                        *)
(***************************************************************************)
TicksNext ==
    \/ \E r \in RenderProcs : Tick(r, 1) /\ UNCHANGED widgetVars
    \/ \E r \in RenderProcs, outcome \in HookOutcomes : RenderWidget(r, outcome) /\ UNCHANGED widgetVars
    \/ \E r \in RenderProcs : RenderPush(r) /\ UNCHANGED widgetVars
    \/ \E r \in RenderProcs : PushFetchOk(r) /\ UNCHANGED widgetVars
    \/ \E r \in RenderProcs, e \in SendErrors : PushFetchErr(r, e) /\ UNCHANGED widgetVars
    \/ \E r \in RenderProcs : PushBackoffDone(r) /\ UNCHANGED widgetVars
    \/ \E r \in RenderProcs : PushDone(r) /\ UNCHANGED widgetVars
    \/ \E r \in RenderProcs : RenderReturn(r) /\ UNCHANGED widgetVars

TicksInit == RenderInit

SpecTicks == TicksInit /\ [][TicksNext]_vars

(***************************************************************************)
(* The life of one scene whose widget hooks do not throw: the first scene  *)
(* created (active, started, no widget yet), then start, stop, addWidget,  *)
(* removeWidget and setEnabled in any order.                               *)
(***************************************************************************)
FirstScene ==
    /\ sceneCounter = 1
    /\ scenes = << 1 >>
    /\ activeScene = 1
    /\ activeSceneId = 1
    /\ sceneObj = [s \in SceneIds |-> IF s = 1 THEN Scene_start(NewScene) ELSE NewScene]
    /\ task = NoTask
    /\ renders = [r \in RenderProcs |-> IdleRender]
    /\ buffer = {}

LifecycleInit == LinkInit /\ FirstScene /\ WidgetInit

LifecycleNext ==
    \/ start(1)
    \/ stop(1, {})
    \/ addWidget(1)
    \/ \E i \in 1..MaxWidgets : removeWidget(1, i, FALSE)
    \/ \E i \in 1..MaxWidgets, enabled \in BOOLEAN : setEnabled(1, i, enabled)

SpecLifecycle == LifecycleInit /\ [][LifecycleNext]_vars

\* two scenes of the manager, the first one active, under start, stop and
\* setRefreshRate, with widgets whose onDestroy hook may throw
Rates == {50, 250, 2000}

RefreshInit ==
    /\ LinkInit
    /\ sceneCounter = 2
    /\ scenes = << 1, 2 >>
    /\ activeScene = 1
    /\ activeSceneId = 1
    /\ sceneObj = [s \in SceneIds |-> IF s = 1 THEN Scene_start(NewScene) ELSE NewScene]
    /\ task = NoTask
    /\ renders = [r \in RenderProcs |-> IdleRender]
    /\ buffer = {}
    /\ WidgetInit

RefreshNext ==
    \/ \E s \in {1, 2} : start(s)
    \/ \E s \in {1, 2}, T \in SUBSET (1..MaxWidgets) : stop(s, T)
    \/ \E s \in {1, 2}, rate \in Rates : setRefreshRate(s, rate)
    \/ addWidget(1)

SpecRefresh == RefreshInit /\ [][RefreshNext]_vars

(***************************************************************************)
(* The SceneManager together with start() and stop() called directly on    *)
(* the Scene objects of its map, as the bootstrap of the application       *)
(* (defaultScene.start()) and the play and stop controls do.               *)
(***************************************************************************)
ScenesNext ==
    \/ createScene /\ UNCHANGED linkVars /\ UNCHANGED widgetVars
    \/ \E sceneId \in SceneIds :
          setActiveScene(sceneId) /\ UNCHANGED linkVars /\ UNCHANGED widgetVars
    \/ setActiveScene_start /\ UNCHANGED linkVars /\ UNCHANGED widgetVars
    \/ \E sceneId \in SceneIds :
          deleteScene(sceneId) /\ UNCHANGED linkVars /\ UNCHANGED widgetVars
    \/ \E s \in SceneIds : start(s)
    \/ \E s \in SceneIds : stop(s, {})

ScenesInit == LinkInit /\ SceneInit /\ WidgetInit

SpecScenes == ScenesInit /\ [][ScenesNext]_vars

(***************************************************************************)
(* A widget of each class on its own, initialized, with intervals of a few *)
(* milliseconds, on a clock that starts beyond every interval (as          *)
(* Date.now() is) and is followed millisecond by millisecond.              *)
(***************************************************************************)
SmallClock == 10
SmallIntervals == {2, 3}

WidgetAloneInit ==
    /\ LinkInit
    /\ FirstScene
    /\ UnitInit
    /\ removed = << >>
    /\ now = SmallClock
    /\ \E kind \in Kinds, i \in SmallIntervals :
          widget = Widget_init(Constructed(kind, [updateInterval    |-> i,
                                                  animationSpeed    |-> 2,
                                                  dataFetchInterval |-> 3]))

WidgetNext ==
    \/ \E fetch \in FetchResults, hookThrows \in BOOLEAN : callRender(fetch, hookThrows)
    \/ \E enabled \in BOOLEAN : callSetEnabled(enabled)
    \/ refreshData
    \/ ClockAdvance(SmallClock + MaxElapsed)

SpecWidget == WidgetAloneInit /\ [][WidgetNext]_vars

(***************************************************************************)
(* The same widget in a scene whose timer ticks (render()) while the       *)
(* preview loop of the UIManager calls renderPreview() every 100 ms.       *)
(***************************************************************************)
PreviewNext ==
    \/ \E fetch \in FetchResults, hookThrows \in BOOLEAN : callRender(fetch, hookThrows)
    \/ \E fetch \in FetchResults, hookThrows \in BOOLEAN : renderPreview(fetch, hookThrows)
    \/ \E enabled \in BOOLEAN : callSetEnabled(enabled)
    \/ ClockAdvance(SmallClock + MaxElapsed)

SpecPreview == WidgetAloneInit /\ [][PreviewNext]_vars

(***************************************************************************)
(* An AnimatedWidget on its own from its construction, under every call    *)
(* that its class and Widget offer.                                        *)
(***************************************************************************)
AnimatedInit ==
    /\ LinkInit
    /\ FirstScene
    /\ UnitInit
    /\ removed = << >>
    /\ now = SmallClock
    /\ \E i \in SmallIntervals :
          widget = Constructed("animated", [updateInterval    |-> i,
                                            animationSpeed    |-> 2,
                                            dataFetchInterval |-> 0])

AnimatedNext ==
    \/ \E fetch \in FetchResults, hookThrows \in BOOLEAN : callRender(fetch, hookThrows)
    \/ \E enabled \in BOOLEAN : callSetEnabled(enabled)
    \/ callInit
    \/ \E throws \in BOOLEAN : callDestroy(throws)
    \/ \E i \in {0, 3}, enabled \in {"unset", "true", "false"} :
          callUpdateConfig(i, enabled)
    \/ resetAnimation
    \/ ClockAdvance(SmallClock + MaxElapsed)

SpecAnimated == AnimatedInit /\ [][AnimatedNext]_vars

(***************************************************************************)
(* A DataWidget with the intervals of its constructor (fetch 30000 ms,     *)
(* draw 1000 ms), initialized, on a timer of 1000 ms.  The clock of the    *)
(* first tick is 0 (a clock started with the run), just below and at the   *)
(* fetch interval, or far beyond it as Date.now() is.                      *)
(***************************************************************************)
ClockStarts == {0, 29000, 30000, 100000}

ScenarioInit ==
    /\ LinkInit
    /\ FirstScene
    /\ UnitInit
    /\ removed = << >>
    /\ now \in ClockStarts
    /\ widget = Widget_init(Constructed("data", NoConfig))

ScenarioNext ==
    \E fetch \in FetchResults : ScenarioTick(fetch)

SpecScenario == ScenarioInit /\ [][ScenarioNext]_vars

(***************************************************************************)
(* A Widget from its construction, under updateConfig.                     *)
(* The configs given to updateConfig name one option, or the four options  *)
(* of the config dialog (UIManager.saveWidgetConfig: x, y, enabled,        *)
(* updateInterval).                                                        *)
(***************************************************************************)
ConstructorConfigs ==
    {[color |-> 1],
     [x |-> 2, y |-> 2, color |-> 1],
     [x |-> 5, y |-> 3, color |-> 1],
     [x |-> 5, width |-> 8, height |-> 8, updateInterval |-> 500, color |-> 1]}

OneOption ==
    {[x |-> 0], [x |-> 5], [y |-> 0], [y |-> 3], [width |-> 0], [width |-> 8],
     [height |-> 8], [updateInterval |-> 0], [updateInterval |-> 500],
     [enabled |-> TRUE], [enabled |-> FALSE], [color |-> 2]}

DialogConfigs == [x : {0, 5}, y : {0, 3}, enabled : BOOLEAN, updateInterval : {0, 500}]

ConfigInit ==
    /\ LinkInit
    /\ FirstScene
    /\ removed = << >>
    /\ now = 0
    /\ widget = Constructed("base", NoConfig)
    /\ \E config \in ConstructorConfigs : cfgWidget = Widget_new(config)
    /\ client = PixooClient_new(ScreenSize)
    /\ pluginManager = PluginManager_new
    /\ deviceScanner = DeviceScanner_new

ConfigNext ==
    \E newConfig \in OneOption \cup DialogConfigs : applyConfig(newConfig)

SpecConfig == ConfigInit /\ [][ConfigNext]_vars

\* the same widgets under init() and destroy(), with hooks that may throw
HooksNext ==
    \/ hookedInit
    \/ \E throws \in BOOLEAN : hookedDestroy(throws)

SpecHooks == ConfigInit /\ [][HooksNext]_vars

\* the same widgets switched off and on in the widget list and moved by a
\* drag (UIManager.handleMouseMove: updateConfig({x, y}))
DragConfigs == [x : {0, 5}, y : {0, 3}]

DragNext ==
    \/ toggleWidget
    \/ \E newConfig \in DragConfigs \cup {[enabled |-> TRUE], [enabled |-> FALSE]} :
          applyConfig(newConfig)

SpecDrag == ConfigInit /\ [][DragNext]_vars

(***************************************************************************)
(* A PixooClient of a small size under the calls that write its buffer.    *)
(* The colors are black, a valid one, and two with a channel of 256.       *)
(***************************************************************************)
BufferSizes == {1, 2}

Palette == {Black, << 255, 0, 128 >>, << 256, 0, 0 >>, << 0, 256, 7 >>}

BufferInit ==
    /\ LinkInit
    /\ FirstScene
    /\ removed = << >>
    /\ now = 0
    /\ widget = Constructed("base", NoConfig)
    /\ cfgWidget = Widget_new([color |-> 1])
    /\ \E size \in BufferSizes : client = PixooClient_new(size)
    /\ pluginManager = PluginManager_new
    /\ deviceScanner = DeviceScanner_new

BufferNext ==
    \/ \E x \in -1 .. 2, y \in -1 .. 2, color \in Palette : clientSetPixel(x, y, color)
    \/ \E color \in Palette \ {Black} : clientFillScreen(color)
    \/ clientClear

SpecBuffer == BufferInit /\ [][BufferNext]_vars

(***************************************************************************)
(* A widget that draws into the buffer of a client of size 64: a widget of *)
(* the default size at (2, 2), as the Clock of the scenario is, and        *)
(* widgets of 8 x 8.                                                       *)
(***************************************************************************)
DrawnWidgets ==
    {[x |-> 2, y |-> 2],
     [x |-> 2, y |-> 2, width |-> 8, height |-> 8],
     [x |-> 60, y |-> 60, width |-> 8, height |-> 8]}

DrawInit ==
    /\ LinkInit
    /\ FirstScene
    /\ removed = << >>
    /\ now = 0
    /\ widget = Constructed("base", NoConfig)
    /\ \E config \in DrawnWidgets : cfgWidget = Widget_new(config)
    /\ client = PixooClient_new(ScreenSize)
    /\ pluginManager = PluginManager_new
    /\ deviceScanner = DeviceScanner_new

DrawNext ==
    \/ \E x \in {-3, 0, 7, 8, 62}, y \in {-3, 0, 7, 8, 62} : callSetPixel(x, y)
    \/ \E x \in {0, 6}, y \in {0, 6}, width \in {2, 4}, height \in {2, 4},
          filled \in BOOLEAN : callDrawRect(x, y, width, height, filled)

SpecDraw == DrawInit /\ [][DrawNext]_vars

(***************************************************************************)
(* A PluginManager under registerPlugin and unregisterPlugin.              *)
(***************************************************************************)
PluginsInit ==
    /\ LinkInit
    /\ FirstScene
    /\ WidgetInit

PluginsNext ==
    \/ \E plugin \in ValidPlugins \cup InvalidPlugins : callRegisterPlugin(plugin)
    \/ \E pluginId \in PluginIds \cup {"c"} : callUnregisterPlugin(pluginId)

SpecPlugins == PluginsInit /\ [][PluginsNext]_vars

(***************************************************************************)
(* A DeviceScanner under two callers of scanNetwork.                       *)
(***************************************************************************)
ScannerInit ==
    /\ LinkInit
    /\ FirstScene
    /\ WidgetInit

ScannerNext ==
    \/ \E p \in ScanProcs, given \in BOOLEAN : scanStart(p, given)
    \/ \E p \in ScanProcs : detectDone(p)
    \/ \E p \in ScanProcs, ip \in Hosts, response \in Responses : probeAnswer(p, ip, response)
    \/ \E p \in ScanProcs : scanFinish(p)

SpecScanner == ScannerInit /\ [][ScannerNext]_vars

(***************************************************************************)
(* The claims about the SceneManager and the render loop.                  *)
(***************************************************************************)
ActiveScenes == {s \in SceneIds : sceneObj[s].isActive}

\* C1: at most one Scene has isActive = true in every state, the state
\* inside setActiveScene between the stop of the old scene and the start of
\* the new one included.
C1_AtMostOneActive ==
    /\ Cardinality(ActiveScenes) <= 1
    /\ task.op = "setActiveScene" => ActiveScenes = {}

C1_Witness ==
    /\ task.op = "setActiveScene"
    /\ activeScene # NoScene
    /\ activeScene # task.sceneId
    /\ Has(scenes, activeScene)
    /\ sceneObj[activeScene].liveTimers = 0

\* C2: no clear of the buffer, no draw hook and no fetch call of a push is
\* made for a scene while it is stopped, by a render() call that was in
\* progress when stop() was called either.
C2_NoEffectAfterStop ==
    \A r \in RenderProcs : ~renders[r].late

\* C3: when the render() of a widget throws in a tick, every other enabled
\* widget of the scene has its render() called in that tick, and push() is
\* called when the client is connected.
C3_ThrowingWidgetIsolated ==
    \A r \in RenderProcs :
        (renders[r].pc = "done" /\ renders[r].threw # 0)
           => /\ \A i \in DOMAIN sceneObj[renders[r].scene].widgets :
                    sceneObj[renders[r].scene].widgets[i].enabled
                       => i \in renders[r].visited
              /\ connected => renders[r].pushed

\* the enabled widgets of scene s
EnabledWidgets(s) ==
    {i \in DOMAIN sceneObj[s].widgets : sceneObj[s].widgets[i].enabled}

\* C11: a push that fails in a tick does not stop the render loop.  The step
\* in which render() catches the error of push() leaves the scene as it is
\* (isActive, its timer); and a tick of the timer after such a failure, on
\* the scene still running, clears the buffer and goes through the widgets,
\* and calls push() only when the client is connected.
C11_PushFailureKeepsLoop ==
    [][\A r \in RenderProcs :
          /\ (renders'[r].pushFailed /\ ~renders[r].pushFailed)
                => /\ sceneObj' = sceneObj
                   /\ renders'[r].pc = "done"
          /\ (/\ renders[r].pushFailed
              /\ renders[r].pc = "idle"
              /\ task = NoTask
              /\ sceneObj[1].isActive
              /\ sceneObj[1].liveTimers > 0
              /\ renders'[r] # renders[r])
                => /\ buffer' = {}
                   /\ renders'[r].pc = "widgets"
                   /\ renders'[r].scene = 1
          /\ (renders[r].pushFailed /\ renders[r].pc = "widgets"
                 /\ renders'[r].pc \in {"push", "done"} /\ renders'[r].threw = 0)
                => /\ renders'[r].visited = EnabledWidgets(renders[r].scene)
                   /\ renders'[r].pushed = connected
      ]_vars

\* a tick after a failed push went through all the widgets of the running
\* scene and did not push, the client being disconnected
C11_Witness ==
    \E r \in RenderProcs :
        /\ renders[r].pushFailed
        /\ renders[r].pc = "done"
        /\ renders[r].visited = 1..MaxWidgets
        /\ renders[r].threw = 0
        /\ ~renders[r].pushed
        /\ ~connected
        /\ sceneObj[1].isActive
        /\ sceneObj[1].liveTimers = 1

\* the render() calls that are between their clear and their return
InProgress == {r \in RenderProcs : renders[r].pc \in {"widgets", "push"}}

\* C12: at most one render() call of the scene is in progress at any
\* instant: a tick clears the buffer only when the render() of the tick
\* before it has completed its push.
C12_OneRenderAtATime ==
    Cardinality(InProgress) <= 1

\* C13: with widget hooks that do not throw, after any sequence of start,
\* stop, addWidget and removeWidget every widget of the scene is initialized
\* exactly when the scene is active, a widget that was removed is
\* uninitialized, and the step that removes it takes it out of the scene.
C13_InitializedIffActive ==
    /\ [](/\ \A i \in DOMAIN sceneObj[1].widgets :
                sceneObj[1].widgets[i].initialized = sceneObj[1].isActive
          /\ \A j \in DOMAIN removed : ~removed[j].initialized)
    /\ [][Len(removed') > Len(removed)
             => Len(sceneObj'[1].widgets) = Len(sceneObj[1].widgets) - 1]_vars

\* a stopped scene that holds widgets, all of them uninitialized, after a
\* widget was removed from it
C13_Witness ==
    /\ ~sceneObj[1].isActive
    /\ Len(sceneObj[1].widgets) = MaxWidgets
    /\ \A i \in DOMAIN sceneObj[1].widgets : ~sceneObj[1].widgets[i].initialized
    /\ Len(removed) > 0

\* C14: when stop() has returned on a scene that was active, every widget of
\* the scene is uninitialized, also when the onDestroy hook of some of them
\* throws.
C14_StopUninitializesAll ==
    ~sceneObj[1].isActive
       => \A i \in DOMAIN sceneObj[1].widgets : ~sceneObj[1].widgets[i].initialized

\* the scenes whose interval timer is scheduled
Ticking == {s \in SceneIds : sceneObj[s].liveTimers > 0}

\* C15: at most one scene is ticking at any instant, start() and stop()
\* called directly on Scene objects included.
C15_AtMostOneTicking ==
    Cardinality(Ticking) <= 1

(***************************************************************************)
(* The claims about the device link.                                       *)
(***************************************************************************)
Pair(cs) == [port |-> cs.port, path |-> cs.path]

\* network error, abort, timeout: the failures that mean the link is lost
ConnectionLossShaped == {FetchFailed, Aborted}

\* C4: in every reachable state, connected = true implies that the
\* negotiated port and path are both set.
C4_ConnectedHasEndpoint ==
    connected => HasEndpoint(connectionState)

\* C5: sendCommand makes no transmission (fetch call) at an instant when
\* connected is false, the retries of a send that began while connected
\* included.
C5_NoTransmitWhileDisconnected ==
    \A p \in SendProcs : ~sends[p].txWhileDisconnected

C7_ThreeAttemptsWithBackoff ==
    \A p \in SendProcs :
        /\ sends[p].tx <= 3
        /\ (sends[p].pc = "failed" /\ sends[p].error \in SendErrors)
              => (sends[p].tx = 3 /\ sends[p].waits = << 1000, 2000 >>)
        /\ sends[p].pc = "ok"
              => ( /\ sends[p].tx \in 1..3
                   /\ sends[p].waits = SubSeq(<< 1000, 2000 >>, 1, sends[p].tx - 1) )
        /\ sends[p].pc = "backoff"
              => ( /\ sends[p].tx \in 1..2
                   /\ sends[p].waits = SubSeq(<< 1000, 2000 >>, 1, sends[p].tx) )

C7_Witness ==
    /\ sends["send1"].pc = "failed"
    /\ sends["send1"].tx = 3
    /\ sends["send1"].waits = << 1000, 2000 >>
    /\ sends["send2"].pc = "ok"
    /\ sends["send2"].tx = 2

\* every probe of the log failed, and the whole list was probed
AllProbesFailed(probes) ==
    /\ Len(probes) > 0
    /\ \A i \in 1..Len(probes) : probes[i].res = "err"
    /\ probes[Len(probes)].idx = Len(Endpoints)

\* C8: a connect() all of whose probes fail throws the error of its last
\* probe and, in the step it throws, leaves connected = false and port and
\* path cleared.
C8_AllProbesFailDisconnects ==
    /\ [](\A c \in ConnProcs :
            AllProbesFailed(conns[c].probes)
               => (conns[c].pc = "failed" /\ conns[c].thrown \in ProbeErrors))
    /\ [][\A c \in ConnProcs :
            (conns[c].pc = "list" /\ conns'[c].pc = "failed")
               => ( /\ AllProbesFailed(conns'[c].probes)
                    /\ conns'[c].thrown = conns'[c].lastProbeError
                    /\ ~connected'
                    /\ Pair(connectionState') = NoEndpoint )
       ]_vars

C8_Witness ==
    \E c \in ConnProcs :
        /\ conns[c].pc = "failed"
        /\ conns[c].thrown = Aborted
        /\ conns[c].probes[1].idx = 0
        /\ Len(conns[c].probes) = Len(Endpoints) + 1
        /\ ~connected
        /\ Pair(connectionState) = NoEndpoint

\* the probes of the candidate list, the probe of the preferred endpoint
\* dropped
ListProbes(probes) ==
    IF Len(probes) > 0 /\ probes[1].idx = 0 THEN Tail(probes) ELSE probes

\* C9: connect() probes the list in order, each entry after the failure of
\* the one before; the first entry whose probe completes is stored as (port,
\* path) with connected = true, and ends the probing; sendCommand makes its
\* fetch calls to the (port, path) stored when it was called.
C9_FirstWorkingEndpointAdopted ==
    /\ [](\A c \in ConnProcs :
            LET lp == ListProbes(conns[c].probes)
            IN /\ \A i \in 1..Len(lp) : lp[i].idx = i
               /\ \A i \in 1..(Len(lp) - 1) : lp[i].res = "err")
    /\ [][\A c \in ConnProcs :
            (conns[c].pc = "list" /\ conns'[c].pc = "ok")
               => LET last == conns'[c].probes[Len(conns'[c].probes)]
                  IN /\ last.res = "ok"
                     /\ conns'[c].probes = Settle(conns[c].probes, "ok")
                     /\ connected'
                     /\ Pair(connectionState') = Endpoints[last.idx]
       ]_vars
    /\ [][\A p \in SendProcs :
            sends'[p].tx = sends[p].tx + 1
               => sends'[p].txTo = IF sends[p].tx = 0
                                   THEN Pair(connectionState)
                                   ELSE sends[p].txTo
       ]_vars

C9_Witness ==
    \E c \in ConnProcs, p \in SendProcs :
        /\ conns[c].pc = "ok"
        /\ Len(conns[c].probes) = 3
        /\ conns[c].probes[3] = [idx |-> 3, res |-> "ok"]
        /\ sends[p].pc = "inflight"
        /\ sends[p].tx = 2
        /\ sends[p].txTo = Endpoints[3]

RenderStep ==
    /\ widget'.calls = widget.calls + 1
    /\ widget.initialized
    /\ widget.enabled
    /\ ~widget'.thrown

\* C16: a base Widget, enabled and initialized, whose lastUpdate is t0: a
\* render() at a time t with t - t0 < updateInterval does not call the draw
\* hook and leaves lastUpdate; a render() at t with t - t0 >= updateInterval,
\* so at t0 + updateInterval exactly, calls it once and sets lastUpdate = t.
C16_BaseCadence ==
    [][(widget.kind = "base" /\ RenderStep)
          => IF now - widget.lastUpdate < widget.updateInterval
             THEN /\ widget'.draws = widget.draws
                  /\ widget'.lastUpdate = widget.lastUpdate
             ELSE /\ widget'.draws = widget.draws + 1
                  /\ widget'.lastUpdate = now
      ]_vars

\* a base widget redrawn at the boundary exactly (its last two redraws are
\* updateInterval apart), with a render() between them that did not draw
C16_Witness ==
    /\ widget.kind = "base"
    /\ widget.draws = 2
    /\ widget.calls = 3
    /\ widget.prevUpdate > 0
    /\ widget.lastUpdate = now
    /\ widget.lastUpdate - widget.prevUpdate = widget.updateInterval

\* C17: an AnimatedWidget, enabled and initialized, redraws in a render()
\* exactly when now - lastUpdate >= animationSpeed, whatever updateInterval
\* is: then the hook gets the frame of before the call, animationFrame goes
\* up by 1 and lastUpdate = now; else animationFrame and lastUpdate stay.
C17_AnimatedCadence ==
    [][(widget.kind = "animated" /\ RenderStep)
          => IF now - widget.lastUpdate >= widget.animationSpeed
             THEN /\ widget'.draws = widget.draws + 1
                  /\ widget'.hookArg = widget.animationFrame
                  /\ widget'.animationFrame = widget.animationFrame + 1
                  /\ widget'.lastUpdate = now
             ELSE /\ widget'.draws = widget.draws
                  /\ widget'.animationFrame = widget.animationFrame
                  /\ widget'.lastUpdate = widget.lastUpdate
      ]_vars

\* an animated widget redrawn animationSpeed after its redraw before, sooner
\* than its updateInterval
C17_Witness ==
    /\ widget.kind = "animated"
    /\ widget.animationSpeed < widget.updateInterval
    /\ widget.draws = 2
    /\ widget.animationFrame = 2
    /\ widget.hookArg = 1
    /\ widget.prevUpdate > 0
    /\ widget.lastUpdate - widget.prevUpdate = widget.animationSpeed

\* C18 as stated: over render ticks, init, destroy, updateConfig, setEnabled
\* and resetAnimation the frame counter of an AnimatedWidget never decreases.
C18_FrameNeverDecreases ==
    [][widget'.animationFrame >= widget.animationFrame]_vars

\* C18: the frame counter of an AnimatedWidget decreases in resetAnimation
\* only, which sets it to 0 and nothing else; render ticks, init, destroy,
\* updateConfig and setEnabled never lower it.
C18_FrameDecreasesOnResetOnly ==
    [][widget'.animationFrame < widget.animationFrame
          => widget' = [widget EXCEPT !.animationFrame = 0]]_vars

\* an animated widget that has drawn frames and whose counter is back at 0
C18_Witness ==
    /\ widget.kind = "animated"
    /\ widget.draws = 2
    /\ widget.hookArg = 1
    /\ widget.animationFrame = 0
    /\ ~widget.thrown

C20_StaleDataOnFetchFailure ==
    [][(widget.kind = "data" /\ widget'.calls = widget.calls + 1
           /\ widget'.fetchFailed)
          => /\ widget'.data = widget.data
             /\ widget'.lastDataFetch = widget.lastDataFetch
             /\ widget'.fetches = widget.fetches + 1
             /\ widget'.thrown => widget'.draws = widget.draws + 1
             /\ IF now - widget.lastUpdate >= widget.updateInterval
                THEN /\ widget'.draws = widget.draws + 1
                     /\ widget'.hookArg = widget.data
                ELSE widget'.draws = widget.draws
      ]_vars

\* a render() whose fetch failed and that drew the data fetched before
C20_Witness ==
    /\ widget.kind = "data"
    /\ widget.fetchFailed
    /\ widget.fetches = 2
    /\ widget.data # NoData
    /\ widget.hookArg = widget.data
    /\ widget.draws = 2
    /\ widget.lastUpdate = now
    /\ ~widget.thrown

(***************************************************************************)
(* The claims about the config of a widget, its drawing, the pixel buffer, *)
(* the plugins and the scanner.                                            *)
(***************************************************************************)
\* C21: updateConfig(partial) is a partial merge: in the step of the call,
\* every config option that partial names gets the value of partial, and
\* every option that was in the config and that partial does not name is
\* still in it with the value it had.
C21_PartialMerge ==
    [][cfgWidget'.updated =>
         LET partial == cfgWidget'.overrides
         IN  /\ \A f \in DOMAIN partial :
                   /\ f \in DOMAIN cfgWidget'.config
                   /\ cfgWidget'.config[f] = partial[f]
             /\ \A f \in DOMAIN cfgWidget.config \ DOMAIN partial :
                   /\ f \in DOMAIN cfgWidget'.config
                   /\ cfgWidget'.config[f] = cfgWidget.config[f]]_vars

C21_Witness ==
    /\ cfgWidget.updated
    /\ cfgWidget.overrides = [color |-> 2]
    /\ cfgWidget.config.color = 2
    /\ cfgWidget.config.x = 5
    /\ cfgWidget.config.y = 3

\* C22: after updateConfig(partial) returned, the fields x, y, width,
\* height, updateInterval and enabled of the widget equal the options of
\* the same names of the merged config, also when partial sets a number to 0.
C22_FieldsFollowConfig ==
    cfgWidget.updated =>
        /\ cfgWidget.x = cfgWidget.config.x
        /\ cfgWidget.y = cfgWidget.config.y
        /\ cfgWidget.width = cfgWidget.config.width
        /\ cfgWidget.height = cfgWidget.config.height
        /\ cfgWidget.updateInterval = cfgWidget.config.updateInterval
        /\ cfgWidget.enabled = cfgWidget.config.enabled

\* C23: every pixel that a widget wrote through its drawing primitives lies
\* inside the widget's own rectangle [x, x + width) x [y, y + height): no
\* cell of the buffer outside it is other than black.
C23_DrawsInsideOwnRectangle ==
    \A cell \in DOMAIN client.buffer :
        /\ cell[1] >= cfgWidget.x /\ cell[1] < cfgWidget.x + cfgWidget.width
        /\ cell[2] >= cfgWidget.y /\ cell[2] < cfgWidget.y + cfgWidget.height

\* C24: PixooClient.setPixel(x, y, color) with x or y outside [0, size)
\* leaves the whole buffer as it was; with (x, y) in range it makes cell
\* (x, y) hold color and leaves every other cell as it was.
C24_SetPixelWritesOneCellOrNone ==
    [][client'.last.op = "setPixel" =>
         LET x == client'.last.x
             y == client'.last.y
         IN  IF x >= 0 /\ x < client.size /\ y >= 0 /\ y < client.size
             THEN \A cell \in Cells(client.size) \cup DOMAIN client.buffer
                                                 \cup DOMAIN client'.buffer :
                     CellAt(client', cell) =
                        IF cell = << x, y >> THEN client'.last.color
                                             ELSE CellAt(client, cell)
             ELSE client'.buffer = client.buffer]_vars

C24_Witness ==
    /\ client.size = 2
    /\ client.last = [op |-> "setPixel", x |-> 2, y |-> 0, color |-> << 255, 0, 128 >>]
    /\ DOMAIN client.buffer = {<< 1, 0 >>}

\* C25: bufferToPicData returns size * size * 6 hex digits, the cells in
\* row-major order, each as two digits of red, two of green, two of blue,
\* whatever colors setPixel, fillScreen and clear have put in the buffer.
C25_PicDataIsSixDigitsPerPixel ==
    LET data == bufferToPicData(client)
    IN  /\ Len(data) = client.size * client.size * 6
        /\ \A k \in 0 .. client.size * client.size - 1 :
              LET color == CellAt(client, << k % client.size, k \div client.size >>)
              IN  SubSeq(data, 6 * k + 1, 6 * k + 6) =
                     << color[1] \div 16, color[1] % 16,
                        color[2] \div 16, color[2] % 16,
                        color[3] \div 16, color[3] % 16 >>

\* C26: init() and destroy() are idempotent: once destroy() has been called
\* after init() the widget is not initialized, and however often destroy()
\* is called after one init(), onDestroy runs once.
C26_DestroyIsIdempotent ==
    /\ cfgWidget.destroys >= 1 => ~cfgWidget.initialized
    /\ cfgWidget.onDestroys <= 1

\* C27: registerPlugin with an id that is registered, or without id, name
\* or version, throws and leaves the plugin map and the widget-type map as
\* they were.
C27_RejectedPluginChangesNothing ==
    [][/\ pluginManager'.last.op = "registerPlugin"
       /\ LET plugin == pluginManager'.arg
          IN  \/ plugin.id = NoId \/ ~plugin.name \/ ~plugin.version
              \/ plugin.id \in DOMAIN pluginManager.plugins
       => /\ pluginManager'.last.outcome = "threw"
          /\ pluginManager'.plugins = pluginManager.plugins
          /\ pluginManager'.widgetTypes = pluginManager.widgetTypes]_vars

C27_Witness ==
    /\ pluginManager.last.op = "registerPlugin"
    /\ pluginManager.last.outcome = "threw"
    /\ pluginManager.arg.id \in DOMAIN pluginManager.plugins
    /\ pluginManager.plugins[pluginManager.arg.id] # pluginManager.arg

\* C28: when the init hook of an acceptable plugin throws, registerPlugin
\* returns normally, and the plugin and every widget type it declares are
\* registered.
C28_InitFailureKeepsPlugin ==
    [][/\ pluginManager'.last.op = "registerPlugin"
       /\ LET plugin == pluginManager'.arg
          IN  /\ plugin.id # NoId /\ plugin.name /\ plugin.version
              /\ plugin.id \notin DOMAIN pluginManager.plugins
              /\ plugin.initThrows
       => LET plugin == pluginManager'.arg
          IN  /\ pluginManager'.last.outcome = "returned"
              /\ plugin.id \in DOMAIN pluginManager'.plugins
              /\ pluginManager'.plugins[plugin.id] = plugin
              /\ \A t \in plugin.widgets :
                    /\ t \in DOMAIN pluginManager'.widgetTypes
                    /\ pluginManager'.widgetTypes[t] = plugin.id]_vars

C28_Witness ==
    /\ pluginManager.last.op = "registerPlugin"
    /\ pluginManager.last.outcome = "returned"
    /\ pluginManager.last.caught
    /\ pluginManager.arg.widgets = {"clock", "text"}
    /\ pluginManager.plugins[pluginManager.arg.id] = pluginManager.arg
    /\ DOMAIN pluginManager.widgetTypes = {"clock", "text"}

\* C29: unregisterPlugin(id) of an unknown id returns false and leaves both
\* maps as they were; of a registered id it removes the plugin and every
\* widget type the plugin declares and returns true, also when the destroy
\* hook throws.
C29_UnregisterRemovesOrRefuses ==
    [][pluginManager'.last.op = "unregisterPlugin" =>
         LET id == pluginManager'.last.id
         IN  IF id \notin DOMAIN pluginManager.plugins
             THEN /\ pluginManager'.last.outcome = "false"
                  /\ pluginManager'.plugins = pluginManager.plugins
                  /\ pluginManager'.widgetTypes = pluginManager.widgetTypes
             ELSE /\ pluginManager'.last.outcome = "true"
                  /\ id \notin DOMAIN pluginManager'.plugins
                  /\ \A t \in pluginManager.plugins[id].widgets :
                        t \notin DOMAIN pluginManager'.widgetTypes]_vars

C29_Witness ==
    /\ pluginManager.last = [op |-> "unregisterPlugin", id |-> "a",
                             outcome |-> "true", caught |-> TRUE]
    /\ "a" \notin DOMAIN pluginManager.plugins
    /\ "b" \in DOMAIN pluginManager.plugins
    /\ DOMAIN pluginManager.widgetTypes = {}

\* C30: at most one scanNetwork call of a scanner is scanning at any time,
\* and a call made while another is scanning starts no probe, leaves the
\* discovered set and the other call as they are, and returns the set
\* discovered so far.
Scanning == {p \in ScanProcs : deviceScanner.calls[p].pc \in {"detect", "probing"}}

C30_OverlappingScanReturnsAtOnce ==
    /\ [](Cardinality(Scanning) <= 1)
    /\ [][\A p \in ScanProcs :
            /\ deviceScanner.isScanning
            /\ deviceScanner.calls[p].pc \in {"idle", "returned"}
            /\ deviceScanner'.calls[p] # deviceScanner.calls[p]
            => /\ deviceScanner'.discoveredDevices = deviceScanner.discoveredDevices
               /\ deviceScanner'.isScanning
               /\ deviceScanner'.calls[p].pc = "returned"
               /\ \A ip \in Hosts : deviceScanner'.calls[p].probes[ip] = NotStarted
               /\ deviceScanner'.calls[p].result = deviceScanner.discoveredDevices
               /\ \A q \in ScanProcs \ {p} :
                     deviceScanner'.calls[q] = deviceScanner.calls[q]]_vars

C30_Witness ==
    \E p \in ScanProcs, q \in ScanProcs :
        /\ deviceScanner.calls[p].pc = "returned"
        /\ deviceScanner.calls[p].guarded
        /\ deviceScanner.calls[p].result = {1}
        /\ deviceScanner.calls[q].pc = "probing"
        /\ deviceScanner.discoveredDevices = {1, 2}
        /\ deviceScanner.isScanning

(***************************************************************************)
(* The claims of the last part.                                            *)
(***************************************************************************)
\* C36: updateConfig(partial) with a partial that does not name enabled
\* leaves the enabled flag of the widget as it was, so a widget switched off
\* by setEnabled(false) is still off after the {x, y} update of a drag.
C36_DragKeepsEnabled ==
    [][\A newConfig \in DragConfigs :
          applyConfig(newConfig) => cfgWidget'.enabled = cfgWidget.enabled]_vars

\* C39: after unregisterPlugin returned, every widget type that a plugin
\* still registered declares is in the widget-type map.
C39_SharedTypeSurvivesUnregister ==
    pluginManager.last.op = "unregisterPlugin" =>
        \A i \in DOMAIN pluginManager.plugins :
            \A t \in pluginManager.plugins[i].widgets :
                t \in DOMAIN pluginManager.widgetTypes

\* C38: between the calls of createScene, deleteScene and setActiveScene,
\* activeSceneId is null exactly when the scene map is empty, and otherwise
\* it is the id of a scene of the map, activeScene is that scene and the
\* scene is active.  A deleteScene that removes the active scene goes on to
\* activate the first scene that remains, in insertion order.
C38_ActiveSceneIsInTheMap ==
    /\ [](task = NoTask =>
            IF scenes = << >>
            THEN activeSceneId = NoScene /\ activeScene = NoScene
            ELSE /\ Has(scenes, activeSceneId)
                 /\ activeScene = activeSceneId
                 /\ sceneObj[activeScene].isActive)
    /\ [][/\ Len(scenes') < Len(scenes) /\ scenes' # << >>
             /\ ~Has(scenes', activeSceneId)
             => /\ task'.op = "setActiveScene"
                /\ task'.sceneId = scenes'[1]]_vars
    /\ [][task.op = "setActiveScene"
             => /\ activeSceneId' = task.sceneId
                /\ activeScene' = task.sceneId
                /\ sceneObj'[task.sceneId].isActive
                /\ task' = NoTask]_vars

\* the first scene was deleted while active, and the second of three is active
C38_Witness ==
    /\ task = NoTask
    /\ scenes = << 2, 3 >>
    /\ activeSceneId = 2
    /\ sceneObj[2].isActive
    /\ ~sceneObj[1].isActive
    /\ ~sceneObj[3].isActive

\* C33: the refreshRate of a scene is at least 100 in every state;
\* setRefreshRate(rate) stores max(100, rate), and the timer that an active
\* scene holds has the refreshRate as its period.
C33_RefreshRateFloor ==
    /\ [](\A s \in SceneIds :
            /\ sceneObj[s].refreshRate >= 100
            /\ sceneObj[s].isActive /\ sceneObj[s].updateInterval
                  => sceneObj[s].period = sceneObj[s].refreshRate)
    /\ [][\A s \in {1, 2}, rate \in Rates :
            setRefreshRate(s, rate)
               => sceneObj'[s].refreshRate = IF rate >= 100 THEN rate ELSE 100]_vars

C33_Witness ==
    /\ sceneObj[1].isActive
    /\ sceneObj[1].refreshRate = 100
    /\ sceneObj[1].period = 100
    /\ sceneObj[1].liveTimers = 1

\* C40: under start, stop and setRefreshRate a scene has one live tick
\* timer when isActive is true and none when it is false.
C40_OneTimerIffActive ==
    \A s \in SceneIds :
        sceneObj[s].liveTimers = IF sceneObj[s].isActive THEN 1 ELSE 0

\* an inactive scene whose rate was changed, without a timer
C40_Witness ==
    /\ ~sceneObj[1].isActive
    /\ sceneObj[1].refreshRate = 250
    /\ sceneObj[1].liveTimers = 0
    /\ sceneObj[1].period = NoTimer

\* C35: every frame that Scene.render pushes is a composite of all the enabled,
\* initialized widgets of the scene: at the moment of the push each of them has
\* drawn into the buffer since the buffer was last cleared, also on a tick
\* where the widget's own interval has not elapsed.
C35_PushedFrameIsComposite ==
    \A r \in RenderProcs :
        renders[r].pc = "push" =>
            \A i \in DOMAIN sceneObj[renders[r].scene].widgets :
                LET w == sceneObj[renders[r].scene].widgets[i]
                IN (w.enabled /\ w.initialized) => i \in buffer

\* C37: Scene.renderPreview changes only the pixel buffer: a preview render
\* leaves lastUpdate, the animation frame, lastDataFetch and the cached data
\* of the widget as they were, so that it never changes on which tick of the
\* scene the widget redraws, nor with which frame number.
C37_PreviewKeepsWidgetState ==
    [][\A fetch \in FetchResults, hookThrows \in BOOLEAN :
          renderPreview(fetch, hookThrows)
             => /\ widget'.lastUpdate = widget.lastUpdate
                /\ widget'.animationFrame = widget.animationFrame
                /\ widget'.lastDataFetch = widget.lastDataFetch
                /\ widget'.data = widget.data]_vars

\* C31: a scan records a device for an address if and only if some endpoint
\* of that address returned a readable response that is a mapping with at
\* least two of the six indicator keys: the array a scan returns holds an
\* address exactly when an answer of its testDevice was ok, readable and
\* passed isPixooDevice.
C31_RecordedIffClassified ==
    \A p \in ScanProcs :
        (deviceScanner.calls[p].pc = "returned" /\ ~deviceScanner.calls[p].guarded)
           => \A ip \in Hosts :
                 ip \in deviceScanner.calls[p].result
                    <=> deviceScanner.calls[p].classified[ip]

\* C32: testDevice goes through the endpoint list of the client's connect, in
\* its order (80 /post, 64 /post, 80 /api/post, 8080 /post, 443 /post), and
\* stops at the first endpoint whose response passes the classifier: the
\* endpoints it has fetched are the first ones of that list, all of them once
\* it is over without such a response, and it is over after such a response.
C32_ScannerTriesClientEndpoints ==
    \A p \in ScanProcs, ip \in Hosts :
        LET call == deviceScanner.calls[p]
        IN /\ call.answered[ip] <= Len(Endpoints)
           /\ SubSeq(testDeviceEndpoints, 1, call.answered[ip])
                 = SubSeq(Endpoints, 1, call.answered[ip])
           /\ (call.probes[ip] = Tested /\ ~call.classified[ip])
                 => call.answered[ip] = Len(Endpoints)
           /\ call.classified[ip] => call.probes[ip] = Tested

\* C34: the size of a discovered device follows from its model string (taken
\* from DeviceModel, model or HardwareInfo, in that order): the number 64, 32
\* or 16 that the string contains, and 64 when it contains none.
C34_SizeFromModelString ==
    \A ip \in deviceScanner.discoveredDevices :
        LET info == deviceScanner.deviceInfo[ip]
            has(token) == info.model.type = "string"
                             /\ IncludesChars(info.model.chars, token)
        IN info.size = IF has(<< "6", "4" >>) THEN 64
                       ELSE IF has(<< "3", "2" >>) THEN 32
                       ELSE IF has(<< "1", "6" >>) THEN 16
                       ELSE 64

====
